---------------------------- MODULE Spec2Model ----------------------------
(***************************************************************************)
(* A model of the ndx document index: the character trie with its posting  *)
(* lists (index.ts), the field statistics, the remove / vacuum lifecycle   *)
(* and the BM25 query with prefix expansion (query.ts).                    *)
(*                                                                         *)
(* Conventions.                                                            *)
(*  - A string is a sequence of char codes; "" is << >>.                   *)
(*  - A nullable JavaScript value is Null (<< >>) or Some(v) (<< v >>), so *)
(*    that an empty array Some(<< >>) differs from null.                   *)
(*  - A DocumentDetails object lives in `heap` and is referred to by its   *)
(*    position there: postings and the registry share the object.          *)
(*  - The tokenizer and the filter are injected functions: a field value   *)
(*    and a query are given by the sequence filter(tokenizer(s)[j]), empty *)
(*    terms included.                                                      *)
(***************************************************************************)
EXTENDS Integers, Sequences, FiniteSets, TLC

VARIABLES
  index,   \* the DocumentIndex
  heap,    \* the DocumentDetails objects, in creation order
  corpus,  \* history: corpus[n] is the document heap[n] was created for
  last,    \* history: the last call and what it returned
  evicted  \* history: the documents, as positions of heap, that were removed
           \* when a vacuum ran: those whose postings a vacuum had to evict

vars == <<index, heap, corpus, last, evicted>>

---------------------------------------------------------------------------
(* Bounds and inputs *)

\* Total number of indexAdd calls in one behaviour.
MaxAdds == 3

\* Document keys.
Keys == {"k1", "k2"}

\* Indexed fields (fieldsNum of createIndex, the length of fieldGetters).
Fields == 1 .. 2

\* Char codes of "a" and "b".
A == <<1>>
B == <<2>>
AB == <<1, 2>>

Null == << >>
Some(v) == << v >>
Val(o) == o[1]

\* Documents: doc[i] is what fieldGetters[i](doc) yields after the tokenizer
\* and the filter: Null for undefined, else the terms, an empty term being a
\* token the filter drops.
Docs ==
  { <<Some(<<A, << >>, A>>), Null>>,        \* "a - a", field 2 absent
    <<Some(<<B, AB>>), Some(<< >>)>>,       \* "b ab", ""
    <<Some(<<A, AB>>), Some(<<A>>)>> }      \* "a ab", "a"

\* Documents with absent fields and with fields that yield no term, and two
\* documents with terms to insert them next to.
SparseDocs ==
  { <<Null, Null>>,                                 \* both fields absent
    <<Null, Some(<< << >> >>)>>,                    \* field 1 absent, "-"
    <<Some(<< >>), Some(<< << >>, << >> >>)>>,      \* no token, "- -"
    <<Some(<<A>>), Null>>,                          \* "a", field 2 absent
    <<Some(<<A, AB>>), Some(<<A>>)>> }              \* "a ab", "a"

\* What one getter and what three getters yield for a document, the index
\* having two fields.
MismatchedDocs ==
  { <<Some(<<A, AB>>)>>,
    <<Some(<<A>>), Null, Some(<<B>>)>>,
    <<Some(<<A>>), Some(<<B>>), Some(<<A, B>>)>> }

\* The fields for which the options of deserialize supply a getter.
GetterLists == { << >>, <<1>>, <<1, 2>> }

\* Queries, as the filtered tokens of the query string.
Queries == { <<A>>, <<A, AB>>, <<B, << >>, A>>, << << >>, <<2, 1>> >> }

\* Queries at the edges: no token at all, tokens that the filter empties, a
\* term that no document of Docs has a path for, and a term that they have.
EdgeQueries == { << >>, << << >>, << >> >>, << << >>, <<2, 1>> >>, <<A>> }

\* Queries of two terms where a document that one term has scored is scored
\* by one or by two expansions of the other: "ab a", "a ab" and "a a".
MergeQueries == { <<AB, A>>, <<A, AB>>, <<A, A>> }

\* Document keys for these documents: "k3" is never removed.
CharKeys == Keys \cup {"k3"}

\* Documents over three characters, "a", "c", "b bc" and "ba bb" with "c" in
\* field 2: a node gets a child before, between and after those it has.
CharDocs ==
  { <<Some(<< <<1>> >>), Null>>,
    <<Some(<< <<3>> >>), Null>>,
    <<Some(<< <<2>>, <<2, 3>> >>), Null>>,
    <<Some(<< <<2, 1>>, <<2, 2>> >>), Some(<< <<3>> >>)>> }

\* Field boost factors passed to indexQuery (positive).
FieldBoosts == { <<1, 1>>, <<2, 1>> }

---------------------------------------------------------------------------
(* Numbers *)

RECURSIVE Gcd(_, _)
Gcd(a, b) == IF b = 0 THEN a ELSE Gcd(b, a % b)

\* The float64 quotient n / d of two small non-negative integers, as a
\* fraction in lowest terms; 0 / 0 is NaN and n / 0 is Infinity.
NaN == [num |-> 0, den |-> 0]
Infinity == [num |-> 1, den |-> 0]
Div(n, d) ==
  IF d = 0 THEN (IF n = 0 THEN NaN ELSE Infinity)
  ELSE LET g == Gcd(n, d) IN
       IF g = 0 THEN [num |-> 0, den |-> 1] ELSE [num |-> n \div g, den |-> d \div g]

Zero == Div(0, 1)

---------------------------------------------------------------------------
(* index.ts: the trie *)

SEARCH_CONTEXT(found, i) == [found |-> found, i |-> i]

\* Binary search of `array` (children, ascending by k) for charCode; i and
\* the bounds are 0-based as in the source.
RECURSIVE findByCharCodeLoop(_, _, _, _)
findByCharCodeLoop(array, charCode, low, high) ==
  IF low < high
  THEN LET mid == (low + high) \div 2
           c == array[mid + 1].k - charCode
       IN  IF c < 0 THEN findByCharCodeLoop(array, charCode, mid + 1, high)
           ELSE IF c > 0 THEN findByCharCodeLoop(array, charCode, low, mid)
           ELSE SEARCH_CONTEXT(TRUE, mid)
  ELSE SEARCH_CONTEXT(FALSE, low)

\* Mutant of findByCharCode: only the first element is compared.
findByCharCodeFirstOnly(array, charCode) ==
  IF Len(array) > 0 /\ array[1].k = charCode
  THEN SEARCH_CONTEXT(TRUE, 0)
  ELSE SEARCH_CONTEXT(FALSE, Len(array))

findByCharCode(array, charCode) == findByCharCodeLoop(array, charCode, 0, Len(array))

createInvertedIndexNode(k) == [k |-> k, c |-> Null, d |-> Null]

createIndex ==
  [ docs    |-> << >>,
    root    |-> createInvertedIndexNode(0),
    fSum    |-> [i \in Fields |-> 0],
    fAvg    |-> [i \in Fields |-> Zero],
    removed |-> 0 ]

\* findInvertedIndexNode(node, term) from position i (1-based) of term:
\* Some(node) or Null for undefined.
RECURSIVE findNodeFrom(_, _, _)
findNodeFrom(node, term, i) ==
  IF i > Len(term) THEN Some(node)
  ELSE IF node.c = Null THEN Null
  ELSE LET c == Val(node.c)
           ctx == findByCharCode(c, term[i])
       IN  IF ~ctx.found THEN Null ELSE findNodeFrom(c[ctx.i + 1], term, i + 1)

findInvertedIndexNode(node, term) == findNodeFrom(node, term, 1)

---------------------------------------------------------------------------
(* JavaScript Map, insertion ordered: a sequence of [key, value] entries *)

MapHas(m, key) == \E n \in 1 .. Len(m) : m[n].key = key

MapGet(m, key) ==
  IF MapHas(m, key)
  THEN Some(m[CHOOSE n \in 1 .. Len(m) : m[n].key = key].value)
  ELSE Null

MapSet(m, key, value) ==
  IF MapHas(m, key)
  THEN [n \in 1 .. Len(m) |-> IF m[n].key = key THEN [key |-> key, value |-> value] ELSE m[n]]
  ELSE Append(m, [key |-> key, value |-> value])

MapDelete(m, key) == SelectSeq(m, LAMBDA e : e.key # key)

MapKeys(m) == { m[n].key : n \in 1 .. Len(m) }

\* array.splice(i, 0, x) and array.splice(i, 1), i 0-based
SpliceIn(array, i, x) == SubSeq(array, 1, i) \o <<x>> \o SubSeq(array, i + 1, Len(array))
SpliceOut(array, i) == SubSeq(array, 1, i) \o SubSeq(array, i + 2, Len(array))

---------------------------------------------------------------------------
(* index.ts: indexAdd *)

\* Mutant of countTerms: the empty terms are counted and indexed too.
RECURSIVE countTermsCountsEmpty(_, _, _, _)
countTermsCountsEmpty(st, terms, j, i) ==
  IF j > Len(terms) THEN st
  ELSE LET term == terms[j]
           got == MapGet(st.termCounts, term)
           fieldTermCounts == IF got = Null THEN [x \in Fields |-> 0] ELSE Val(got)
       IN  countTermsCountsEmpty(
             [ termCounts |-> MapSet(st.termCounts, term,
                                [fieldTermCounts EXCEPT ![i] = @ + 1]),
               filteredTermsCount |-> st.filteredTermsCount + 1 ],
             terms, j + 1, i)

\* Mutant of countTerms: a term that occurs again is counted from zero.
RECURSIVE countTermsNoAccumulate(_, _, _, _)
countTermsNoAccumulate(st, terms, j, i) ==
  IF j > Len(terms) THEN st
  ELSE LET term == terms[j] IN
       IF term # << >>
       THEN countTermsNoAccumulate(
              [ termCounts |-> MapSet(st.termCounts, term,
                                 [[x \in Fields |-> 0] EXCEPT ![i] = 1]),
                filteredTermsCount |-> st.filteredTermsCount + 1 ],
              terms, j + 1, i)
       ELSE countTermsNoAccumulate(st, terms, j + 1, i)

\* Lines 207-218: filter and count the terms of field i from token j on.
\* st = [termCounts, filteredTermsCount].
RECURSIVE countTerms(_, _, _, _)
countTerms(st, terms, j, i) ==
  IF j > Len(terms) THEN st
  ELSE LET term == terms[j] IN
       IF term # << >>
       THEN LET got == MapGet(st.termCounts, term)
                fieldTermCounts == IF got = Null THEN [x \in Fields |-> 0] ELSE Val(got)
            IN  countTerms(
                  [ termCounts |-> MapSet(st.termCounts, term,
                                     [fieldTermCounts EXCEPT ![i] = @ + 1]),
                    filteredTermsCount |-> st.filteredTermsCount + 1 ],
                  terms, j + 1, i)
       ELSE countTerms(st, terms, j + 1, i)

\* Mutant of addFields: the average is taken over docs.size, the document
\* being inserted not counted.
RECURSIVE addFieldsNoAnticipation(_, _, _, _)
addFieldsNoAnticipation(st, doc, i, size) ==
  IF i > Len(doc) THEN st
  ELSE LET field == doc[i] IN
       IF field # Null
       THEN LET r == countTerms([termCounts |-> st.termCounts, filteredTermsCount |-> 0],
                                Val(field), 1, i)
                sum == st.fSum[i] + r.filteredTermsCount
            IN  addFieldsNoAnticipation(
                  [ termCounts |-> r.termCounts,
                    fSum   |-> [st.fSum EXCEPT ![i] = sum],
                    fAvg   |-> [st.fAvg EXCEPT ![i] = Div(sum, size)],
                    fCount |-> [st.fCount EXCEPT ![i] = r.filteredTermsCount] ],
                  doc, i + 1, size)
       ELSE addFieldsNoAnticipation(st, doc, i + 1, size)

\* Lines 199-223: the loop over the fields from field i on.
\* st = [termCounts, fCount, fSum, fAvg]; size is docs.size.
RECURSIVE addFields(_, _, _, _)
addFields(st, doc, i, size) ==
  IF i > Len(doc) THEN st
  ELSE LET field == doc[i] IN
       IF field # Null
       THEN LET r == countTerms([termCounts |-> st.termCounts, filteredTermsCount |-> 0],
                                Val(field), 1, i)
                sum == st.fSum[i] + r.filteredTermsCount
            IN  addFields(
                  [ termCounts |-> r.termCounts,
                    fSum   |-> [st.fSum EXCEPT ![i] = sum],
                    fAvg   |-> [st.fAvg EXCEPT ![i] = Div(sum, size + 1)],
                    fCount |-> [st.fCount EXCEPT ![i] = r.filteredTermsCount] ],
                  doc, i + 1, size)
       ELSE addFields(st, doc, i + 1, size)

\* Mutant of addTerm: a node is created for every character below a node
\* that has children, whether the child is there already or not.
RECURSIVE addTermAlwaysCreates(_, _, _, _)
addTermAlwaysCreates(node, term, i, doc) ==
  IF i > Len(term)
  THEN [node EXCEPT !.d = IF node.d = Null THEN Some(<<doc>>)
                          ELSE Some(Append(Val(node.d), doc))]
  ELSE LET charCode == term[i] IN
       IF node.c = Null
       THEN [node EXCEPT !.c =
               Some(<<addTermAlwaysCreates(createInvertedIndexNode(charCode), term, i + 1, doc)>>)]
       ELSE LET c == Val(node.c)
                ctx == findByCharCode(c, charCode)
            IN  [node EXCEPT !.c = Some(SpliceIn(c, ctx.i,
                   addTermAlwaysCreates(createInvertedIndexNode(charCode), term, i + 1, doc)))]

\* Lines 229-255: walk / create the path of term from position i below node
\* and append the posting `doc` to the terminal node.
RECURSIVE addTerm(_, _, _, _)
addTerm(node, term, i, doc) ==
  IF i > Len(term)
  THEN [node EXCEPT !.d = IF node.d = Null THEN Some(<<doc>>)
                          ELSE Some(Append(Val(node.d), doc))]
  ELSE LET charCode == term[i] IN
       IF node.c = Null
       THEN [node EXCEPT !.c =
               Some(<<addTerm(createInvertedIndexNode(charCode), term, i + 1, doc)>>)]
       ELSE LET c == Val(node.c)
                ctx == findByCharCode(c, charCode)
            IN  IF ~ctx.found
                THEN [node EXCEPT !.c = Some(SpliceIn(c, ctx.i,
                        addTerm(createInvertedIndexNode(charCode), term, i + 1, doc)))]
                ELSE [node EXCEPT !.c = Some([c EXCEPT ![ctx.i + 1] =
                        addTerm(c[ctx.i + 1], term, i + 1, doc)])]

\* Lines 227-256: termCounts.forEach from entry n on.
RECURSIVE addTerms(_, _, _, _)
addTerms(root, termCounts, n, details) ==
  IF n > Len(termCounts) THEN root
  ELSE addTerms(
         addTerm(root, termCounts[n].key, 1,
                 [details |-> details, tf |-> termCounts[n].value]),
         termCounts, n + 1, details)

\* indexAdd(index, fieldGetters, key, doc): the index and the heap after it.
\* doc[i] is what fieldGetters[i](doc) yields, tokenized and filtered.
indexAdd(idx, hp, key, doc) ==
  LET st == addFields([ termCounts |-> << >>,
                        fSum |-> idx.fSum, fAvg |-> idx.fAvg,
                        fCount |-> [x \in Fields |-> 0] ],
                      doc, 1, Len(idx.docs))
      details == Len(hp) + 1
  IN  [ index |-> [ docs    |-> MapSet(idx.docs, key, details),
                    root    |-> addTerms(idx.root, st.termCounts, 1, details),
                    fSum    |-> st.fSum,
                    fAvg    |-> st.fAvg,
                    removed |-> idx.removed ],
        heap  |-> Append(hp, [key |-> key, fCount |-> st.fCount, removed |-> FALSE]) ]

\* indexAdd when fieldGetters[f], the tokenizer or the filter raises while
\* field f is processed: lines 199-223 have run for the fields before f, and
\* have assigned to fSum and fAvg in place; lines 225-256 do not run. Within
\* field f nothing of the index is assigned to before line 219.
indexAddRaising(idx, doc, f) ==
  LET st == addFields([ termCounts |-> << >>,
                        fSum |-> idx.fSum, fAvg |-> idx.fAvg,
                        fCount |-> [x \in Fields |-> 0] ],
                      SubSeq(doc, 1, f - 1), 1, Len(idx.docs))
  IN  [idx EXCEPT !.fSum = st.fSum, !.fAvg = st.fAvg]

\* indexAdd with a fieldGetters array whose length is not that of fSum.
\* fSum, fAvg and the counters of a term are typed arrays of fSum.length
\* elements: a write past their end is dropped. fCount has one element per
\* getter.

\* Lines 207-218 for field i, n being fSum.length.
RECURSIVE countTermsTyped(_, _, _, _, _)
countTermsTyped(st, terms, j, i, n) ==
  IF j > Len(terms) THEN st
  ELSE LET term == terms[j] IN
       IF term # << >>
       THEN LET got == MapGet(st.termCounts, term)
                fieldTermCounts == IF got = Null THEN [x \in 1 .. n |-> 0] ELSE Val(got)
            IN  countTermsTyped(
                  [ termCounts |-> MapSet(st.termCounts, term,
                                     IF i <= n THEN [fieldTermCounts EXCEPT ![i] = @ + 1]
                                     ELSE fieldTermCounts),
                    filteredTermsCount |-> st.filteredTermsCount + 1 ],
                  terms, j + 1, i, n)
       ELSE countTermsTyped(st, terms, j + 1, i, n)

\* Lines 199-223 from field i on.
RECURSIVE addFieldsTyped(_, _, _, _)
addFieldsTyped(st, doc, i, size) ==
  IF i > Len(doc) THEN st
  ELSE LET field == doc[i] IN
       IF field # Null
       THEN LET r == countTermsTyped([termCounts |-> st.termCounts, filteredTermsCount |-> 0],
                                     Val(field), 1, i, Len(st.fSum))
            IN  addFieldsTyped(
                  [ termCounts |-> r.termCounts,
                    fSum   |-> IF i <= Len(st.fSum)
                               THEN [st.fSum EXCEPT ![i] = @ + r.filteredTermsCount]
                               ELSE st.fSum,
                    fAvg   |-> IF i <= Len(st.fSum)
                               THEN [st.fAvg EXCEPT ![i] =
                                       Div(st.fSum[i] + r.filteredTermsCount, size + 1)]
                               ELSE st.fAvg,
                    fCount |-> [st.fCount EXCEPT ![i] = r.filteredTermsCount] ],
                  doc, i + 1, size)
       ELSE addFieldsTyped(st, doc, i + 1, size)

\* Lines 189-257: no line compares fieldGetters.length with fSum.length and
\* none throws.
indexAddTyped(idx, hp, key, doc) ==
  LET st == addFieldsTyped([ termCounts |-> << >>,
                             fSum |-> idx.fSum, fAvg |-> idx.fAvg,
                             fCount |-> [x \in 1 .. Len(doc) |-> 0] ],
                           doc, 1, Len(idx.docs))
      details == Len(hp) + 1
  IN  [ index |-> [ docs    |-> MapSet(idx.docs, key, details),
                    root    |-> addTerms(idx.root, st.termCounts, 1, details),
                    fSum    |-> st.fSum,
                    fAvg    |-> st.fAvg,
                    removed |-> idx.removed ],
        heap  |-> Append(hp, [key |-> key, fCount |-> st.fCount, removed |-> FALSE]) ]

---------------------------------------------------------------------------
(* index.ts: indexRemove *)

\* Lines 277-283: the loop over the fields from field i on; size is docs.size
\* after docs.delete(key).
RECURSIVE removeFields(_, _, _, _)
removeFields(st, fCount, i, size) ==
  IF i > Len(st.fSum) THEN st
  ELSE LET fieldLength == fCount[i] IN
       IF fieldLength > 0
       THEN LET sum == st.fSum[i] - fieldLength
            IN  removeFields([ fSum |-> [st.fSum EXCEPT ![i] = sum],
                               fAvg |-> [st.fAvg EXCEPT ![i] = Div(sum, size)] ],
                             fCount, i + 1, size)
       ELSE removeFields(st, fCount, i + 1, size)

\* Mutant of indexRemove: fSum is not decreased.
indexRemoveKeepSum(idx, hp, key) ==
  LET docDetails == MapGet(idx.docs, key) IN
  IF docDetails # Null
  THEN LET id == Val(docDetails)
           docs == MapDelete(idx.docs, key)
       IN  [ index |-> [ docs    |-> docs,
                         root    |-> idx.root,
                         fSum    |-> idx.fSum,
                         fAvg    |-> [i \in Fields |->
                                       IF hp[id].fCount[i] > 0
                                       THEN Div(idx.fSum[i], Len(docs)) ELSE idx.fAvg[i]],
                         removed |-> idx.removed + 1 ],
             heap  |-> [hp EXCEPT ![id].removed = TRUE] ]
  ELSE [index |-> idx, heap |-> hp]

\* Mutant of indexRemove: index.removed is incremented before the lookup.
indexRemoveCountsMiss(idx, hp, key) ==
  LET docDetails == MapGet(idx.docs, key) IN
  IF docDetails # Null
  THEN LET id == Val(docDetails)
           docs == MapDelete(idx.docs, key)
           st == removeFields([fSum |-> idx.fSum, fAvg |-> idx.fAvg],
                              hp[id].fCount, 1, Len(docs))
       IN  [ index |-> [ docs    |-> docs,
                         root    |-> idx.root,
                         fSum    |-> st.fSum,
                         fAvg    |-> st.fAvg,
                         removed |-> idx.removed + 1 ],
             heap  |-> [hp EXCEPT ![id].removed = TRUE] ]
  ELSE [index |-> [idx EXCEPT !.removed = @ + 1], heap |-> hp]

\* Mutant of indexRemove: docDetails.removed is not set.
indexRemoveNoFlag(idx, hp, key) ==
  LET docDetails == MapGet(idx.docs, key) IN
  IF docDetails # Null
  THEN LET id == Val(docDetails)
           docs == MapDelete(idx.docs, key)
           st == removeFields([fSum |-> idx.fSum, fAvg |-> idx.fAvg],
                              hp[id].fCount, 1, Len(docs))
       IN  [ index |-> [ docs    |-> docs,
                         root    |-> idx.root,
                         fSum    |-> st.fSum,
                         fAvg    |-> st.fAvg,
                         removed |-> idx.removed + 1 ],
             heap  |-> hp ]
  ELSE [index |-> idx, heap |-> hp]

\* Mutant of indexRemove: the postings of the document are unlinked at once.
RECURSIVE unlinkPostings(_, _)
unlinkPostings(node, id) ==
  [ k |-> node.k,
    d |-> IF node.d = Null THEN Null
          ELSE Some(SelectSeq(Val(node.d), LAMBDA p : p.details # id)),
    c |-> IF node.c = Null THEN Null
          ELSE Some([n \in 1 .. Len(Val(node.c)) |-> unlinkPostings(Val(node.c)[n], id)]) ]

indexRemoveUnlinks(idx, hp, key) ==
  LET docDetails == MapGet(idx.docs, key) IN
  IF docDetails # Null
  THEN LET id == Val(docDetails)
           docs == MapDelete(idx.docs, key)
           st == removeFields([fSum |-> idx.fSum, fAvg |-> idx.fAvg],
                              hp[id].fCount, 1, Len(docs))
       IN  [ index |-> [ docs    |-> docs,
                         root    |-> unlinkPostings(idx.root, id),
                         fSum    |-> st.fSum,
                         fAvg    |-> st.fAvg,
                         removed |-> idx.removed + 1 ],
             heap  |-> [hp EXCEPT ![id].removed = TRUE] ]
  ELSE [index |-> idx, heap |-> hp]

indexRemove(idx, hp, key) ==
  LET docDetails == MapGet(idx.docs, key) IN
  IF docDetails # Null
  THEN LET id == Val(docDetails)
           docs == MapDelete(idx.docs, key)
           st == removeFields([fSum |-> idx.fSum, fAvg |-> idx.fAvg],
                              hp[id].fCount, 1, Len(docs))
       IN  [ index |-> [ docs    |-> docs,
                         root    |-> idx.root,
                         fSum    |-> st.fSum,
                         fAvg    |-> st.fAvg,
                         removed |-> idx.removed + 1 ],
             heap  |-> [hp EXCEPT ![id].removed = TRUE] ]
  ELSE [index |-> idx, heap |-> hp]

---------------------------------------------------------------------------
(* index.ts: indexVacuum *)

\* Lines 301-311: evict the postings of removed documents from d, from
\* position i (0-based) on: the last posting is moved into the hole.
\* Mutant of vacuumPostings: i advances past the posting moved into the hole.
RECURSIVE vacuumPostingsSkip(_, _, _)
vacuumPostingsSkip(d, i, hp) ==
  IF i < Len(d)
  THEN IF hp[d[i + 1].details].removed = TRUE
       THEN LET moved == IF Len(d) > 1 THEN [d EXCEPT ![i + 1] = d[Len(d)]] ELSE d
            IN  vacuumPostingsSkip(SubSeq(moved, 1, Len(moved) - 1), i + 1, hp)
       ELSE vacuumPostingsSkip(d, i + 1, hp)
  ELSE d

\* Mutant of vacuumPostings: the last posting is popped without being moved
\* into the hole.
RECURSIVE vacuumPostingsNoMove(_, _, _)
vacuumPostingsNoMove(d, i, hp) ==
  IF i < Len(d)
  THEN IF hp[d[i + 1].details].removed = TRUE
       THEN vacuumPostingsNoMove(SubSeq(d, 1, Len(d) - 1), i, hp)
       ELSE vacuumPostingsNoMove(d, i + 1, hp)
  ELSE d

RECURSIVE vacuumPostings(_, _, _)
vacuumPostings(d, i, hp) ==
  IF i < Len(d)
  THEN IF hp[d[i + 1].details].removed = TRUE
       THEN LET moved == IF Len(d) > 1 THEN [d EXCEPT ![i + 1] = d[Len(d)]] ELSE d
            IN  vacuumPostings(SubSeq(moved, 1, Len(moved) - 1), i, hp)
       ELSE vacuumPostings(d, i + 1, hp)
  ELSE d

BitOr(a, b) == IF a = 1 \/ b = 1 THEN 1 ELSE 0

\* _vacuumIndex(node): [ret, node], ret = 1 when the subtree holds a posting.
RECURSIVE _vacuumIndex(_, _)
RECURSIVE vacuumChildren(_, _, _, _)

\* Lines 318-327: the loop over the children c from position i (0-based) on.
vacuumChildren(c, i, ret, hp) ==
  IF i < Len(c)
  THEN LET r == _vacuumIndex(c[i + 1], hp) IN
       IF r.ret = 0
       THEN vacuumChildren(SpliceOut(c, i), i, BitOr(ret, r.ret), hp)
       ELSE vacuumChildren([c EXCEPT ![i + 1] = r.node], i + 1, BitOr(ret, r.ret), hp)
  ELSE [ret |-> ret, c |-> c]

_vacuumIndex(node, hp) ==
  LET d == IF node.d # Null THEN Some(vacuumPostings(Val(node.d), 0, hp)) ELSE Null
      ret == IF d # Null /\ Len(Val(d)) > 0 THEN 1 ELSE 0
      cs == IF node.c # Null THEN vacuumChildren(Val(node.c), 0, ret, hp)
            ELSE [ret |-> ret, c |-> << >>]
  IN  [ ret  |-> cs.ret,
        node |-> [ k |-> node.k,
                   c |-> IF node.c # Null THEN Some(cs.c) ELSE Null,
                   d |-> d ] ]

indexVacuum(idx, hp) ==
  [idx EXCEPT !.root = _vacuumIndex(idx.root, hp).node, !.removed = 0]

---------------------------------------------------------------------------
(* query.ts: expandTerm *)

\* Mutant of _expandTerm: the children are not visited.
_expandTermNoChildren(node, results, term) ==
  IF node.d # Null THEN Append(results, term) ELSE results

RECURSIVE _expandTerm(_, _, _)
RECURSIVE expandChildren(_, _, _, _)

\* Lines 138-141: the loop over the children from position i (1-based) on.
expandChildren(children, i, results, term) ==
  IF i > Len(children) THEN results
  ELSE expandChildren(children, i + 1,
         _expandTerm(children[i], results, Append(term, children[i].k)), term)

\* Mutant of _expandTerm: the term of a node is pushed after those of its
\* subtree.
_expandTermPostOrder(node, results, term) ==
  LET below == IF node.c # Null THEN expandChildren(Val(node.c), 1, results, term)
               ELSE results
  IN  IF node.d # Null THEN Append(below, term) ELSE below

_expandTerm(node, results, term) ==
  LET pushed == IF node.d # Null THEN Append(results, term) ELSE results
  IN  IF node.c # Null THEN expandChildren(Val(node.c), 1, pushed, term) ELSE pushed

expandTerm(idx, term) ==
  LET node == findInvertedIndexNode(idx.root, term)
  IN  IF node # Null THEN _expandTerm(Val(node), << >>, term) ELSE << >>

---------------------------------------------------------------------------
(* query.ts: BM25 arithmetic.                                              *)
(* A score is a fixed-point number, an integer count of 1 / Scale, or NaN; *)
(* Math.log is a truncated series. Equal inputs give equal scores, as in   *)
(* float64; the values themselves are approximations.                      *)

Scale == 10 * 1000

Fx(v) == [nan |-> FALSE, v |-> v]
FxNaN == [nan |-> TRUE, v |-> 0]

\* BM25 constants passed by the caller (README: 1.2 and 0.75).
bm25k1 == [num |-> 6, den |-> 5]
bm25b == [num |-> 3, den |-> 4]

\* sum of z^(2n+1) / (2n+1), z = a / b, from the term `power` = z^(2n+1) on
RECURSIVE AtanhSeries(_, _, _, _)
AtanhSeries(power, n, a, b) ==
  IF power = 0 THEN 0
  ELSE power \div (2 * n + 1) + AtanhSeries((power * a * a) \div (b * b), n + 1, a, b)

\* Scale * Math.log(p / q) for integers p >= q > 0: 2 * atanh((p - q) / (p + q))
Log(p, q) == 2 * AtanhSeries((Scale * (p - q)) \div (p + q), 0, p - q, p + q)

\* Line 57-59: 1, or log(1 + 1 / (1 + eTerm.length - term.length))
expansionBoost(eTerm, term) ==
  IF eTerm = term THEN Scale
  ELSE Log(2 + Len(eTerm) - Len(term), 1 + Len(eTerm) - Len(term))

\* Line 73: log(1 + (docs.size - documentFrequency + 0.5) / (documentFrequency + 0.5)),
\* the argument being (2 * size + 2) / (2 * documentFrequency + 1).
\* Below 1 (more live postings than documents) the logarithm is negative.
bm25idf(size, documentFrequency) ==
  LET p == 2 * size + 2
      q == 2 * documentFrequency + 1
  IN  IF p >= q THEN Log(p, q) ELSE 0 - Log(q, p)

\* Line 86: ((k1 + 1) * tf) / (k1 * ((1 - b) + b * (fieldLength / avgFieldLength)) + tf)
\* over the common denominator k1.den * b.den * avg.num. An average of 0
\* gives Infinity below the line (0, or NaN when fieldLength is 0 too), an
\* average of NaN gives NaN.
bm25tf(tf, fieldLength, avgFieldLength) ==
  LET an == avgFieldLength.num
      ad == avgFieldLength.den
      x == (bm25k1.num + bm25k1.den) * tf * bm25b.den * an
      y == bm25k1.num * ((bm25b.den - bm25b.num) * an + bm25b.num * fieldLength * ad)
             + tf * bm25k1.den * bm25b.den * an
  IN  IF y = 0 THEN FxNaN ELSE Fx((Scale * x) \div y)

FxMul(a, b) == (a * b) \div Scale

---------------------------------------------------------------------------
(* query.ts: indexQuery *)

\* Lines 65-70: the number of postings of d whose document is not removed.
documentFrequency(d, hp) ==
  Cardinality({ k \in 1 .. Len(d) : hp[d[k].details].removed = FALSE })

\* Lines 80-89: the score of one posting, from field x on.
RECURSIVE pointerScore(_, _, _, _, _, _, _, _)
pointerScore(score, pointer, x, hp, fAvg, idf, fieldBoost, boost) ==
  IF x > Len(hp[pointer.details].fCount) THEN score
  ELSE LET tf == pointer.tf[x] IN
       IF tf > 0
       THEN LET fieldLength == hp[pointer.details].fCount[x]
                avgFieldLength == fAvg[x]
                ntf == bm25tf(tf, fieldLength, avgFieldLength)
                next == IF score.nan \/ ntf.nan THEN FxNaN
                        ELSE Fx(score.v + FxMul(FxMul(ntf.v, idf) * fieldBoost[x], boost))
            IN  pointerScore(next, pointer, x + 1, hp, fAvg, idf, fieldBoost, boost)
       ELSE pointerScore(score, pointer, x + 1, hp, fAvg, idf, fieldBoost, boost)

\* Mutant of mergeScore: the scores of all expansions are summed.
mergeScoreSum(st, key, score, i, eTerm) ==
  LET prevScore == MapGet(st.scores, key)
      new == IF prevScore = Null THEN score ELSE Val(prevScore) + score
  IN  [ scores |-> MapSet(st.scores, key, new),
        visitedDocuments |-> st.visitedDocuments \cup {key},
        steps |-> Append(st.steps, [ i |-> i, eTerm |-> eTerm, key |-> key,
                                     prevScore |-> prevScore, score |-> score,
                                     new |-> new ]),
        console |-> st.console ]

\* Lines 90-102: merge the score of document `key` into the query state
\* st = [scores, visitedDocuments, steps, console]. steps records every
\* merge, for the properties about the merge order: it is not a value of the
\* program. console is what the call has written to the console so far.
mergeScore(st, key, score, i, eTerm) ==
  LET prevScore == MapGet(st.scores, key)
      new == IF prevScore # Null /\ key \in st.visitedDocuments
             THEN (IF Val(prevScore) >= score THEN Val(prevScore) ELSE score)
             ELSE IF prevScore = Null THEN score
             ELSE Val(prevScore) + score
  IN  [ scores |-> MapSet(st.scores, key, new),
        visitedDocuments |-> st.visitedDocuments \cup {key},
        steps |-> Append(st.steps, [ i |-> i, eTerm |-> eTerm, key |-> key,
                                     prevScore |-> prevScore, score |-> score,
                                     new |-> new ]),
        console |-> st.console ]

\* Line 79: console.log(pointer.details.fCount) writes one line.
consoleLog(st, value) == [st EXCEPT !.console = Append(@, value)]

\* Lines 75-104: the loop over the postings d from position k (1-based) on.
RECURSIVE scorePostings(_, _, _, _, _, _, _, _, _, _)
scorePostings(st, d, k, hp, fAvg, idf, fieldBoost, boost, i, eTerm) ==
  IF k > Len(d) THEN st
  ELSE LET pointer == d[k] IN
       IF hp[pointer.details].removed = FALSE
       THEN LET logged == consoleLog(st, hp[pointer.details].fCount)
                score == pointerScore(Fx(0), pointer, 1, hp, fAvg, idf, fieldBoost, boost)
            IN  scorePostings(
                  IF ~score.nan /\ score.v > 0
                  THEN mergeScore(logged, hp[pointer.details].key, score.v, i, eTerm)
                  ELSE logged,
                  d, k + 1, hp, fAvg, idf, fieldBoost, boost, i, eTerm)
       ELSE scorePostings(st, d, k + 1, hp, fAvg, idf, fieldBoost, boost, i, eTerm)

\* Lines 55-107: the loop over the expanded terms from position j on.
RECURSIVE scoreExpansions(_, _, _, _, _, _, _, _)
scoreExpansions(st, expandedTerms, j, idx, hp, fieldBoost, term, i) ==
  IF j > Len(expandedTerms) THEN st
  ELSE LET eTerm == expandedTerms[j]
           boost == expansionBoost(eTerm, term)
           termNode == findInvertedIndexNode(idx.root, eTerm)
       IN  IF termNode # Null /\ Val(termNode).d # Null
           THEN LET d == Val(Val(termNode).d)
                    df == documentFrequency(d, hp)
                IN  scoreExpansions(
                      IF df > 0
                      THEN scorePostings(st, d, 1, hp, idx.fAvg,
                                         bm25idf(Len(idx.docs), df), fieldBoost, boost,
                                         i, eTerm)
                      ELSE st,
                      expandedTerms, j + 1, idx, hp, fieldBoost, term, i)
           ELSE scoreExpansions(st, expandedTerms, j + 1, idx, hp, fieldBoost, term, i)

\* Mutant of scoreTerms: an empty term is expanded and scored like any other.
RECURSIVE scoreTermsKeepsEmpty(_, _, _, _, _, _)
scoreTermsKeepsEmpty(st, terms, i, idx, hp, fieldBoost) ==
  IF i > Len(terms) THEN st
  ELSE LET term == terms[i]
           r == scoreExpansions(
                  [st EXCEPT !.visitedDocuments = {}],
                  expandTerm(idx, term), 1, idx, hp, fieldBoost, term, i)
       IN  scoreTermsKeepsEmpty(r, terms, i + 1, idx, hp, fieldBoost)

\* Lines 50-109: the loop over the query terms from position i on.
RECURSIVE scoreTerms(_, _, _, _, _, _)
scoreTerms(st, terms, i, idx, hp, fieldBoost) ==
  IF i > Len(terms) THEN st
  ELSE LET term == terms[i] IN
       IF term # << >>
       THEN LET r == scoreExpansions(
                       [st EXCEPT !.visitedDocuments = {}],
                       expandTerm(idx, term), 1, idx, hp, fieldBoost, term, i)
            IN  scoreTerms(r, terms, i + 1, idx, hp, fieldBoost)
       ELSE scoreTerms(st, terms, i + 1, idx, hp, fieldBoost)

evalQuery(idx, hp, fieldBoost, s) ==
  scoreTerms([scores |-> << >>, visitedDocuments |-> {}, steps |-> << >>,
              console |-> << >>],
             s, 1, idx, hp, fieldBoost)

\* Lines 16-19 and 114: Array.prototype.sort with sortByScore is a stable
\* sort by descending score: e goes after every element that does not
\* compare after it.
RECURSIVE sortInsert(_, _, _)
sortInsert(sorted, e, n) ==
  IF n > Len(sorted) THEN Append(sorted, e)
  ELSE IF sorted[n].score - e.score < 0
       THEN SubSeq(sorted, 1, n - 1) \o <<e>> \o SubSeq(sorted, n, Len(sorted))
       ELSE sortInsert(sorted, e, n + 1)

RECURSIVE sortByScore(_, _, _)
sortByScore(result, sorted, n) ==
  IF n > Len(result) THEN sorted
  ELSE sortByScore(result, sortInsert(sorted, result[n], 1), n + 1)

\* Mutant of queryResult: the scores are returned in the order of the Map.
queryResultUnsorted(scores) ==
  [n \in 1 .. Len(scores) |-> [key |-> scores[n].key, score |-> scores[n].value]]

\* indexQuery(index, fieldBoost, bm25k1, bm25b, s): the QueryResult array.
\* Lines 110-116: the scores as an array, sorted.
queryResult(scores) ==
  LET result == [n \in 1 .. Len(scores) |->
                   [key |-> scores[n].key, score |-> scores[n].value]]
  IN  sortByScore(result, << >>, 1)

indexQuery(idx, hp, fieldBoost, s) == queryResult(evalQuery(idx, hp, fieldBoost, s).scores)

---------------------------------------------------------------------------
(* serialize / deserialize *)

\* What a codec that copies by value (the msgpack codec of the tests) writes
\* for a node: the node with the details object of every posting written
\* out in place, since the bytes hold values and no references.
RECURSIVE encodeNode(_, _)
encodeNode(node, hp) ==
  [ k |-> node.k,
    d |-> IF node.d = Null THEN Null
          ELSE Some([n \in 1 .. Len(Val(node.d)) |->
                       [ details |-> hp[Val(node.d)[n].details],
                         tf |-> Val(node.d)[n].tf ]]),
    c |-> IF node.c = Null THEN Null
          ELSE Some([n \in 1 .. Len(Val(node.c)) |-> encodeNode(Val(node.c)[n], hp)]) ]

\* serialize(index, serializer): lines 20-40 gather the registry as an array
\* of [key, details] pairs, the root of the trie and the field descriptors
\* (here fSum and fAvg, the sumLength and avgLength of the fields); line 42
\* hands them to the codec.
serialize(idx, hp) ==
  [ _documents |-> [n \in 1 .. Len(idx.docs) |->
                      [key |-> idx.docs[n].key, value |-> hp[idx.docs[n].value]]],
    _index |-> [root |-> encodeNode(idx.root, hp)],
    _fields |-> [i \in Fields |-> [sumLength |-> idx.fSum[i], avgLength |-> idx.fAvg[i]]] ]

\* The codec reading the postings d from position n on: every details value
\* becomes an object of its own. st = [d, heap].
RECURSIVE decodePostings(_, _, _)
decodePostings(st, d, n) ==
  IF n > Len(d) THEN st
  ELSE decodePostings(
         [ d |-> Append(st.d, [details |-> Len(st.heap) + 1, tf |-> d[n].tf]),
           heap |-> Append(st.heap, d[n].details) ],
         d, n + 1)

\* The codec reading a node, and its children from position n on:
\* [node, heap], resp. [c, heap].
RECURSIVE decodeNode(_, _)
RECURSIVE decodeChildren(_, _, _)
decodeNode(enc, hp) ==
  LET ds == IF enc.d = Null THEN [d |-> << >>, heap |-> hp]
            ELSE decodePostings([d |-> << >>, heap |-> hp], Val(enc.d), 1)
      cs == IF enc.c = Null THEN [c |-> << >>, heap |-> ds.heap]
            ELSE decodeChildren([c |-> << >>, heap |-> ds.heap], Val(enc.c), 1)
  IN  [ node |-> [ k |-> enc.k,
                   d |-> IF enc.d = Null THEN Null ELSE Some(ds.d),
                   c |-> IF enc.c = Null THEN Null ELSE Some(cs.c) ],
        heap |-> cs.heap ]

decodeChildren(st, c, n) ==
  IF n > Len(c) THEN st
  ELSE LET r == decodeNode(c[n], st.heap)
       IN  decodeChildren([c |-> Append(st.c, r.node), heap |-> r.heap], c, n + 1)

\* The codec reading the registry: one details object per entry.
decodeDocuments(documents) ==
  [ docs |-> [n \in 1 .. Len(documents) |-> [key |-> documents[n].key, value |-> n]],
    heap |-> [n \in 1 .. Len(documents) |-> documents[n].value] ]

\* Mutant of deserialize: the field descriptors are not restored.
deserializeNoFields(serializedState) ==
  LET documents == decodeDocuments(serializedState._documents)
      root == decodeNode(serializedState._index.root, documents.heap)
  IN  [ index |-> [ docs |-> documents.docs,
                    root |-> root.node,
                    fSum |-> createIndex.fSum,
                    fAvg |-> createIndex.fAvg,
                    removed |-> createIndex.removed ],
        heap |-> root.heap ]

\* deserialize(serializedIndex, deserializer, options): line 50 decodes,
\* line 51 constructs an index, lines 53-61 assign the registry, the root and
\* the field descriptors to it. The persisted state has no counter of
\* removed documents: it is as constructed. The tokenizer, the filter and
\* the getters (lines 63-75) are those of the original: documents and
\* queries are their output here.
deserialize(serializedState) ==
  LET documents == decodeDocuments(serializedState._documents)
      root == decodeNode(serializedState._index.root, documents.heap)
  IN  [ index |-> [ docs |-> documents.docs,
                    root |-> root.node,
                    fSum |-> [i \in Fields |-> serializedState._fields[i].sumLength],
                    fAvg |-> [i \in Fields |-> serializedState._fields[i].avgLength],
                    removed |-> createIndex.removed ],
        heap |-> root.heap ]

---------------------------------------------------------------------------
(* document_index.ts: the cleanup that DocumentIndex.search does on its    *)
(* way. The posting list of a node is a linked list there (firstPosting,   *)
(* next): the list that becomes empty is null.                             *)

\* Mutant of unlinkRemoved: a removed posting is unlinked by moving the
\* head of the list past it, whatever precedes it.
RECURSIVE unlinkRemovedFromHead(_, _, _)
unlinkRemovedFromHead(d, n, hp) ==
  IF n > Len(d) THEN d
  ELSE IF hp[d[n].details].removed
       THEN unlinkRemovedFromHead(SubSeq(d, n + 1, Len(d)), 1, hp)
       ELSE unlinkRemovedFromHead(d, n + 1, hp)

\* Lines 284-296: the walk over the postings from posting n on, which
\* unlinks those whose details.removed is true.
RECURSIVE unlinkRemoved(_, _, _)
unlinkRemoved(d, n, hp) ==
  IF n > Len(d) THEN d
  ELSE IF hp[d[n].details].removed
       THEN unlinkRemoved(SubSeq(d, 1, n - 1) \o SubSeq(d, n + 1, Len(d)), n, hp)
       ELSE unlinkRemoved(d, n + 1, hp)

\* Mutant of cleanTermNode: a node whose list becomes empty loses its
\* children too.
RECURSIVE cleanTermNodeDropsChildren(_, _, _, _)
cleanTermNodeDropsChildren(node, eTerm, i, hp) ==
  IF i > Len(eTerm)
  THEN IF node.d = Null THEN node
       ELSE LET d == unlinkRemoved(Val(node.d), 1, hp)
            IN  IF d = << >> THEN [node EXCEPT !.d = Null, !.c = Null]
                ELSE [node EXCEPT !.d = Some(d)]
  ELSE IF node.c = Null THEN node
  ELSE LET c == Val(node.c)
           ctx == findByCharCode(c, eTerm[i])
       IN  IF ~ctx.found THEN node
           ELSE [node EXCEPT !.c = Some([c EXCEPT ![ctx.i + 1] =
                   cleanTermNodeDropsChildren(c[ctx.i + 1], eTerm, i + 1, hp)])]

\* Lines 277-296 for the node that eTerm spells below node, from character
\* i on: its posting list when it has one, cleaned.
RECURSIVE cleanTermNode(_, _, _, _)
cleanTermNode(node, eTerm, i, hp) ==
  IF i > Len(eTerm)
  THEN IF node.d = Null THEN node
       ELSE LET d == unlinkRemoved(Val(node.d), 1, hp)
            IN  [node EXCEPT !.d = IF d = << >> THEN Null ELSE Some(d)]
  ELSE IF node.c = Null THEN node
  ELSE LET c == Val(node.c)
           ctx == findByCharCode(c, eTerm[i])
       IN  IF ~ctx.found THEN node
           ELSE [node EXCEPT !.c = Some([c EXCEPT ![ctx.i + 1] =
                   cleanTermNode(c[ctx.i + 1], eTerm, i + 1, hp)])]

\* Lines 273-334: the loop over the expanded terms from position j on.
RECURSIVE cleanExpansions(_, _, _, _)
cleanExpansions(root, expandedTerms, j, hp) ==
  IF j > Len(expandedTerms) THEN root
  ELSE cleanExpansions(cleanTermNode(root, expandedTerms[j], 1, hp), expandedTerms, j + 1, hp)

\* Lines 269-336: the loop over the query terms from position i on; the
\* index after DocumentIndex.search(query).
RECURSIVE searchCleanup(_, _, _, _)
searchCleanup(idx, s, i, hp) ==
  IF i > Len(s) THEN idx
  ELSE IF s[i] # << >>
       THEN searchCleanup(
              [idx EXCEPT !.root = cleanExpansions(idx.root, expandTerm(idx, s[i]), 1, hp)],
              s, i + 1, hp)
       ELSE searchCleanup(idx, s, i + 1, hp)

---------------------------------------------------------------------------
(* index.ts, the version whose removed documents are a Set of keys.        *)
(* The children of a node and its postings are linked lists (firstChild,   *)
(* firstDoc, next): c and d are Null for an empty list and else the list   *)
(* from its head on. A details object has a key and the field lengths, and *)
(* no removed flag: the keys removed since the last vacuum are in a Set    *)
(* that the caller passes to removeDocumentFromIndex and to vacuumIndex,   *)
(* kept here in the field `removed` of the index.                          *)

\* findInvertedIndexChildNodeByCharCode(node, charCode): the position of
\* the child in the list, 0 for undefined.
findInvertedIndexChildNodeByCharCode(node, charCode) ==
  IF node.c = Null THEN 0
  ELSE LET c == Val(node.c)
           S == { n \in 1 .. Len(c) : c[n].k = charCode }
       IN  IF S = {} THEN 0 ELSE CHOOSE n \in S : \A m \in S : n <= m

\* The child becomes the head of the list of children.
addInvertedIndexChildNode(parent, child) ==
  [parent EXCEPT !.c = IF parent.c = Null THEN Some(<<child>>)
                       ELSE Some(<<child>> \o Val(parent.c))]

\* The posting becomes the head of the list of postings.
addInvertedIndexDoc(node, doc) ==
  [node EXCEPT !.d = IF node.d = Null THEN Some(<<doc>>) ELSE Some(<<doc>> \o Val(node.d))]

\* createInvertedIndexNodes(parent, term, start) followed by
\* addInvertedIndexDoc on the leaf: parent with the chain of new nodes for
\* term[start ..] below it, the leaf holding doc.
RECURSIVE createInvertedIndexNodes(_, _, _, _)
createInvertedIndexNodes(parent, term, start, doc) ==
  IF start > Len(term) THEN addInvertedIndexDoc(parent, doc)
  ELSE addInvertedIndexChildNode(parent,
         createInvertedIndexNodes(createInvertedIndexNode(term[start]), term, start + 1, doc))

\* The loop of addDocumentToIndex over the characters of term from i on,
\* and the addInvertedIndexDoc that follows it.
RECURSIVE addTermLinked(_, _, _, _)
addTermLinked(node, term, i, doc) ==
  IF i > Len(term) THEN addInvertedIndexDoc(node, doc)
  ELSE IF node.c = Null THEN createInvertedIndexNodes(node, term, i, doc)
  ELSE LET n == findInvertedIndexChildNodeByCharCode(node, term[i]) IN
       IF n = 0 THEN createInvertedIndexNodes(node, term, i, doc)
       ELSE [node EXCEPT !.c = Some([Val(node.c) EXCEPT ![n] =
               addTermLinked(Val(node.c)[n], term, i + 1, doc)])]

\* termCounts.forEach from entry n on.
RECURSIVE addTermsLinked(_, _, _, _)
addTermsLinked(root, termCounts, n, details) ==
  IF n > Len(termCounts) THEN root
  ELSE addTermsLinked(
         addTermLinked(root, termCounts[n].key, 1,
                       [details |-> details, tf |-> termCounts[n].value]),
         termCounts, n + 1, details)

\* addDocumentToIndex(index, fieldAccessors, tokenizer, filter, key, doc).
\* The loop over the fields is that of indexAdd (fields[i].sum and .avg are
\* fSum[i] and fAvg[i], fieldLengths is fCount with a 0 pushed for a field
\* that is undefined). The Set of removed keys is not a parameter.
addDocumentToIndex(idx, hp, key, doc) ==
  LET st == addFields([ termCounts |-> << >>,
                        fSum |-> idx.fSum, fAvg |-> idx.fAvg,
                        fCount |-> [x \in Fields |-> 0] ],
                      doc, 1, Len(idx.docs))
      details == Len(hp) + 1
  IN  [ index |-> [ docs    |-> MapSet(idx.docs, key, details),
                    root    |-> addTermsLinked(idx.root, st.termCounts, 1, details),
                    fSum    |-> st.fSum,
                    fAvg    |-> st.fAvg,
                    removed |-> idx.removed ],
        heap  |-> Append(hp, [key |-> key, fCount |-> st.fCount, removed |-> FALSE]) ]

\* removeDocumentFromIndex(index, removed, key).
removeDocumentFromIndex(idx, hp, key) ==
  LET docDetails == MapGet(idx.docs, key) IN
  IF docDetails # Null
  THEN LET docs == MapDelete(idx.docs, key)
           st == removeFields([fSum |-> idx.fSum, fAvg |-> idx.fAvg],
                              hp[Val(docDetails)].fCount, 1, Len(docs))
       IN  [ docs    |-> docs,
             root    |-> idx.root,
             fSum    |-> st.fSum,
             fAvg    |-> st.fAvg,
             removed |-> idx.removed \cup {key} ]
  ELSE idx

\* _vacuumIndex(node, removed): [ret, node]. A posting is
\* unlinked when the key of its document is in the Set, a child when its
\* subtree holds no posting.
RECURSIVE _vacuumIndexRemovedSet(_, _, _)
_vacuumIndexRemovedSet(node, removed, hp) ==
  LET d == IF node.d = Null THEN << >>
           ELSE SelectSeq(Val(node.d), LAMBDA p : hp[p.details].key \notin removed)
      rs == IF node.c = Null THEN << >>
            ELSE [n \in 1 .. Len(Val(node.c)) |->
                    _vacuumIndexRemovedSet(Val(node.c)[n], removed, hp)]
      kept == SelectSeq(rs, LAMBDA r : r.ret # 0)
  IN  [ ret  |-> IF d # << >> \/ kept # << >> THEN 1 ELSE 0,
        node |-> [ k |-> node.k,
                   d |-> IF d = << >> THEN Null ELSE Some(d),
                   c |-> IF kept = << >> THEN Null
                         ELSE Some([n \in 1 .. Len(kept) |-> kept[n].node]) ] ]

\* vacuumIndex(index, removed).
vacuumIndex(idx, hp) ==
  [idx EXCEPT !.root = _vacuumIndexRemovedSet(idx.root, idx.removed, hp).node,
              !.removed = {}]

---------------------------------------------------------------------------
(* The state machine: one action per exported function *)

Call(op, key, s, fieldBoost) == [op |-> op, key |-> key, s |-> s, fieldBoost |-> fieldBoost]

NoBoost == [i \in Fields |-> 0]

Init ==
  /\ index = createIndex
  /\ heap = << >>
  /\ corpus = << >>
  /\ last = Call("createIndex", "", << >>, NoBoost)
  /\ evicted = {}

\* Keys are unique among the live documents: the caller's contract.
IndexAdd ==
  /\ Len(heap) < MaxAdds
  /\ \E key \in Keys \ MapKeys(index.docs), doc \in Docs :
       LET r == indexAdd(index, heap, key, doc) IN
       /\ index' = r.index
       /\ heap' = r.heap
       /\ corpus' = Append(corpus, doc)
       /\ last' = Call("indexAdd", key, << >>, NoBoost)
       /\ UNCHANGED evicted

IndexRemove ==
  \E key \in Keys :
    LET r == indexRemove(index, heap, key) IN
    /\ index' = r.index
    /\ heap' = r.heap
    /\ last' = Call("indexRemove", key, << >>, NoBoost)
    /\ UNCHANGED <<corpus, evicted>>

IndexVacuum ==
  /\ index' = indexVacuum(index, heap)
  /\ last' = Call("indexVacuum", "", << >>, NoBoost)
  /\ evicted' = evicted \cup { n \in 1 .. Len(heap) : heap[n].removed }
  /\ UNCHANGED <<heap, corpus>>

\* indexQuery assigns to nothing reachable from the index: the call leaves
\* the state as it is and returns indexQuery(index, heap, fieldBoost, s).
IndexQuery ==
  \E s \in Queries, fieldBoost \in FieldBoosts :
    /\ last' = Call("indexQuery", "", s, fieldBoost)
    /\ UNCHANGED <<index, heap, corpus, evicted>>

\* What the last call returned, the merges it made and what it wrote to the
\* console, when it was a query.
lastQuery == evalQuery(index, heap, last.fieldBoost, last.s)
lastResult == queryResult(lastQuery.scores)

Next == IndexAdd \/ IndexRemove \/ IndexVacuum \/ IndexQuery

Spec == Init /\ [][Next]_vars

---------------------------------------------------------------------------
(* Vocabulary of the properties *)

IsPrefix(q, t) == Len(q) <= Len(t) /\ SubSeq(t, 1, Len(q)) = q

\* The non-empty terms of a document, over all its fields.
TermsOf(doc) ==
  UNION { { Val(doc[i])[j] : j \in 1 .. Len(Val(doc[i])) } :
          i \in { x \in DOMAIN doc : doc[x] # Null } } \ { << >> }

LiveKeys == MapKeys(index.docs)

\* The document registered under the live key k, as it was inserted.
LiveDoc(k) == corpus[Val(MapGet(index.docs, k))]

KeysOf(result) == { result[n].key : n \in 1 .. Len(result) }
ResultKeys == KeysOf(lastResult)

\* Some non-empty term of the query s is a prefix of a term of doc.
Matches(s, doc) ==
  \E n \in 1 .. Len(s), t \in TermsOf(doc) : s[n] # << >> /\ IsPrefix(s[n], t)

\* Every node of the subtree of node, node included.
RECURSIVE SubtreeNodes(_)
SubtreeNodes(node) ==
  {node} \cup
  (IF node.c = Null THEN {}
   ELSE UNION { SubtreeNodes(Val(node.c)[n]) : n \in 1 .. Len(Val(node.c)) })

\* The postings held by node itself.
PostingsAt(node) ==
  IF node.d = Null THEN {} ELSE { Val(node.d)[n] : n \in 1 .. Len(Val(node.d)) }

\* The details objects of the documents that were removed.
RemovedDetails == { n \in 1 .. Len(heap) : heap[n].removed }

\* Some posting in the trie still refers to a removed document.
RemovedPostingLeft ==
  \E node \in SubtreeNodes(index.root) : \E p \in PostingsAt(node) : heap[p.details].removed

---------------------------------------------------------------------------
(* C1: the keys indexQuery returns are exactly the live documents that     *)
(* have an indexed term of which some non-empty query term is a prefix.    *)
C1_QueryReturnsPrefixMatches ==
  last.op = "indexQuery" =>
    ResultKeys = { k \in LiveKeys : Matches(last.s, LiveDoc(k)) }

\* A query of two terms returned two documents while the postings of a
\* removed document that matches it too were still in the trie.
C1_Witness ==
  /\ last.op = "indexQuery"
  /\ Len(last.s) > 1
  /\ Cardinality(ResultKeys) = 2
  /\ RemovedPostingLeft
  /\ \E n \in RemovedDetails : Matches(last.s, corpus[n])

(* C2: a key that was removed and not inserted again is returned by no     *)
(* later indexQuery, vacuum or not.                                        *)
C2_RemovedKeyNeverReturned ==
  last.op = "indexQuery" =>
    ResultKeys \cap { heap[n].key : n \in { x \in 1 .. Len(heap) : heap[x].key \notin LiveKeys } } = {}

\* A query matched a live document and a removed one whose key is no longer
\* live and whose postings have not been vacuumed.
C2_Witness ==
  /\ last.op = "indexQuery"
  /\ ResultKeys # {}
  /\ index.removed > 0
  /\ \E n \in RemovedDetails :
       /\ heap[n].key \notin LiveKeys
       /\ Matches(last.s, corpus[n])
       /\ \E node \in SubtreeNodes(index.root) : \E p \in PostingsAt(node) : p.details = n

---------------------------------------------------------------------------
\* The strings the trie of this model can spell, and the empty string.
Chars == {1, 2}
Strings == { << >> } \cup { <<a>> : a \in Chars } \cup { <<a, b>> : a, b \in Chars }

Range(seq) == { seq[n] : n \in 1 .. Len(seq) }
NoDuplicates(seq) == \A m, n \in 1 .. Len(seq) : m # n => seq[m] # seq[n]

\* A stored term: its node exists and holds at least one posting.
IsStored(t) ==
  LET node == findInvertedIndexNode(index.root, t)
  IN  node # Null /\ PostingsAt(Val(node)) # {}

(* C4: in every reachable state expandTerm(q) returns, each once, exactly  *)
(* the stored terms that q is a prefix of.                                 *)
C4_ExpandTermExact ==
  \A q \in Strings :
    LET e == expandTerm(index, q)
    IN  /\ NoDuplicates(e)
        /\ Range(e) = { t \in Strings : IsStored(t) /\ IsPrefix(q, t) }

---------------------------------------------------------------------------
RECURSIVE SumFCount(_, _, _)
SumFCount(docs, n, i) ==
  IF n > Len(docs) THEN 0 ELSE heap[docs[n].value].fCount[i] + SumFCount(docs, n + 1, i)

(* C5: after every operation fSum[i] is the sum of fCount[i] over the      *)
(* documents of the live registry, for every field i.                      *)
C5_FSumIsSumOfLiveFCount ==
  \A i \in Fields : index.fSum[i] = SumFCount(index.docs, 1, i)

\* A document with terms was removed while another one with terms is live.
C5_Witness ==
  /\ last.op = "indexRemove"
  /\ \E i \in Fields :
       /\ index.fSum[i] > 0
       /\ \E n \in RemovedDetails : heap[n].fCount[i] > 0 /\ heap[n].key = last.key

Max(a, b) == IF a >= b THEN a ELSE b

(* C6: after every operation fAvg[i] = fSum[i] / max(1, live documents),   *)
(* for every field i.                                                      *)
C6_FAvgIsFSumOverLive ==
  \A i \in Fields : index.fAvg[i] = Div(index.fSum[i], Max(1, Len(index.docs)))

---------------------------------------------------------------------------
Inputs == Queries \X FieldBoosts

(* C7: indexVacuum followed by indexQuery(Q) returns the sequence of (key, *)
(* score) pairs that indexQuery(Q) returns without the vacuum, ties in the *)
(* same order.                                                             *)
C7_VacuumKeepsQueryResult ==
  [][last'.op = "indexVacuum" =>
       \A in \in Inputs :
         indexQuery(index', heap', in[2], in[1]) = indexQuery(index, heap, in[2], in[1])]_vars

\* before and after hold the same (key, score) pairs and the same scores
\* position by position: they differ at most in the order of equal scores.
SameUpToTies(before, after) ==
  /\ Len(before) = Len(after)
  /\ Range(before) = Range(after)
  /\ \A n \in 1 .. Len(before) : before[n].score = after[n].score

(* C7 as amended: indexVacuum followed by indexQuery(Q) returns the same   *)
(* (key, score) pairs as indexQuery(Q) without the vacuum, in the same     *)
(* order except among documents whose scores are equal. (A vacuum that     *)
(* leaves the index as it is has nothing to compare, and indexQuery leaves *)
(* the index as it is, so every index a vacuum meets it meets right after  *)
(* an indexAdd or an indexRemove.)                                         *)
C7_VacuumKeepsQueryResultUpToTies ==
  [][last'.op = "indexVacuum" /\ index' # index /\ last.op # "indexQuery" =>
       \A in \in Inputs :
         SameUpToTies(indexQuery(index, heap, in[2], in[1]),
                      indexQuery(index', heap', in[2], in[1]))]_vars

\* A vacuum evicted the postings of a removed document from an index on
\* which a query returns two documents.
C7_Witness ==
  /\ last.op = "indexVacuum"
  /\ \E n \in RemovedDetails : TermsOf(corpus[n]) # {}
  /\ \E in \in Inputs : Len(indexQuery(index, heap, in[2], in[1])) = 2

---------------------------------------------------------------------------
(* C8: indexRemove of a key that is not live changes nothing: the registry,*)
(* fSum, fAvg, the removed counter, the trie and the details are as before.*)
C8_RemoveOfDeadKeyIsNoOp ==
  [][last'.op = "indexRemove" /\ ~MapHas(index.docs, last'.key) =>
       index' = index /\ heap' = heap]_vars

\* The last call removed a key that had been removed before: no remove has
\* hit a live key since the last vacuum.
C8_Witness ==
  /\ last.op = "indexRemove"
  /\ index.removed = 0
  /\ index.docs # << >>
  /\ \E n \in RemovedDetails : heap[n].key = last.key

(* C9: indexVacuum is idempotent: a second vacuum right after the first    *)
(* leaves the trie, the postings, the registry, the statistics and the     *)
(* removed counter as the first left them.                                 *)
C9_VacuumIdempotent ==
  last.op = "indexVacuum" => indexVacuum(index, heap) = index

\* The vacuum had postings of two removed documents to evict.
C9_Witness ==
  /\ last.op = "indexVacuum"
  /\ \E m, n \in RemovedDetails : m # n /\ TermsOf(corpus[m]) \cap TermsOf(corpus[n]) # {}

---------------------------------------------------------------------------
\* Step n of steps is the first merge for its document within its query term.
FirstInTerm(steps, n) ==
  ~ \E m \in 1 .. n - 1 : steps[m].i = steps[n].i /\ steps[m].key = steps[n].key

\* scores[key] before step n: what the latest earlier merge for the
\* document left, 0 when there is none.
ScoreBefore(steps, n) ==
  LET earlier == { m \in 1 .. n - 1 : steps[m].key = steps[n].key }
  IN  IF earlier = {} THEN 0
      ELSE steps[CHOOSE m \in earlier : \A x \in earlier : x <= m].new

\* The merges follow the rule, and the scores returned are the last ones merged.
MergeRule(steps) ==
  \A n \in 1 .. Len(steps) :
    /\ steps[n].score > 0
    /\ steps[n].new = IF FirstInTerm(steps, n) THEN ScoreBefore(steps, n) + steps[n].score
                      ELSE Max(ScoreBefore(steps, n), steps[n].score)

(* C10: within one query term the first expansion that scores document k   *)
(* with s > 0 sets scores[k] to (previous value or 0) + s and every later  *)
(* expansion sets it to max(scores[k], s).                                 *)
C10_FirstAddsLaterTakeMax ==
  last.op = "indexQuery" => MergeRule(lastQuery.steps)

AddsToEarlierTerm(steps) ==
  \E n \in 1 .. Len(steps) : FirstInTerm(steps, n) /\ ScoreBefore(steps, n) > 0

LaterExpansion(steps) ==
  \E n \in 1 .. Len(steps) : ~FirstInTerm(steps, n) /\ steps[n].score # ScoreBefore(steps, n)

\* A second query term added to the score the first had left, and a later
\* expansion of one query term scored a document the term had scored.
C10_Witness ==
  /\ last.op = "indexQuery"
  /\ AddsToEarlierTerm(lastQuery.steps)
  /\ LaterExpansion(lastQuery.steps)

---------------------------------------------------------------------------
\* result is in non-increasing score order, holds no key twice and no score
\* that is not positive.
SortedUniquePositive(result) ==
  /\ \A n \in 1 .. Len(result) - 1 : result[n].score >= result[n + 1].score
  /\ \A m, n \in 1 .. Len(result) : m # n => result[m].key # result[n].key
  /\ \A n \in 1 .. Len(result) : result[n].score > 0

(* C11: the sequence indexQuery returns is in non-increasing score order,  *)
(* holds each document key at most once, and every score in it is positive.*)
C11_ResultSortedUniquePositive ==
  [](last.op = "indexQuery" => SortedUniquePositive(lastResult))

\* The sort had something to do: the query scored two documents, the one it
\* scored first lower than the other, over two query terms that both match.
SortReordered(scores, result) ==
  /\ Len(result) = 2
  /\ result[1].score > result[2].score
  /\ scores[1].key = result[2].key

C11_Witness ==
  /\ last.op = "indexQuery"
  /\ Len(last.s) > 1
  /\ SortReordered(lastQuery.scores, lastResult)

---------------------------------------------------------------------------
(* The state machine with calls of indexAdd that raise. *)

\* fSum is what the live documents sum to: no call that raised has left a
\* trace so far. A call that raises is followed up to the first trace.
NoTrace == \A i \in Fields : index.fSum[i] = SumFCount(index.docs, 1, i)

\* indexAdd(index, fieldGetters, key, doc) raises while field f is processed.
IndexAddRaises ==
  /\ Len(heap) < MaxAdds
  /\ NoTrace
  /\ \E key \in Keys \ MapKeys(index.docs), doc \in Docs, f \in Fields :
       /\ index' = indexAddRaising(index, doc, f)
       /\ last' = Call("indexAdd raises", key, << >>, NoBoost)
       /\ UNCHANGED <<heap, corpus, evicted>>

NextRaise == Next \/ IndexAddRaises

SpecRaise == Init /\ [][NextRaise]_vars

(* C12: when indexAdd fails part-way (an accessor, the tokenizer or the    *)
(* filter raises while a later field is processed) the index is as it was  *)
(* before the call: fSum, fAvg, the registry and the trie are unchanged.   *)
C12_FailedAddLeavesIndexUnchanged ==
  [][last'.op = "indexAdd raises" => index' = index /\ heap' = heap]_vars

---------------------------------------------------------------------------
\* The index that deserialize(serialize(index)) yields, with its details.
RoundTrip == deserialize(serialize(index, heap))

\* The copy answers the last query as the original does.
SameResult(copy, result) ==
  indexQuery(copy.index, copy.heap, last.fieldBoost, last.s) = result

\* The copy expands every term as the original does.
SameExpansions(copy) ==
  \A t \in Strings : expandTerm(copy.index, t) = expandTerm(index, t)

---------------------------------------------------------------------------
\* findInvertedIndexNode(root, t) returns a node whose posting list is
\* present and not empty.
FindsPostings(t) ==
  LET node == findInvertedIndexNode(index.root, t)
  IN  node # Null /\ Val(node).d # Null /\ Val(Val(node).d) # << >>

\* The terms indexed for a document whose postings no vacuum has evicted.
IndexedAndNotEvicted ==
  UNION { TermsOf(corpus[n]) : n \in (1 .. Len(corpus)) \ evicted }

(* C14: in every reachable state and for every term t,                     *)
(* findInvertedIndexNode(root, t) returns a node whose posting list is     *)
(* present and not empty if and only if t was indexed for some document    *)
(* and not all of its postings have since been evicted by a vacuum.        *)
C14_FindNodeIffIndexedAndNotEvicted ==
  []({ t \in Strings : FindsPostings(t) } = IndexedAndNotEvicted)

\* Of two documents that had a term in common, one was evicted by the last
\* vacuum, leaving a term of its own without postings on a path that is
\* still there, and the term in common is still found.
C14_Witness ==
  /\ last.op = "indexVacuum"
  /\ \E t \in Strings : FindsPostings(t) /\ \E n \in evicted : t \in TermsOf(corpus[n])
  /\ \E t \in Strings :
       /\ ~FindsPostings(t)
       /\ findInvertedIndexNode(index.root, t) # Null
       /\ \E n \in evicted : t \in TermsOf(corpus[n])

---------------------------------------------------------------------------
\* The details object registered under the live key k.
DetailsOf(k) == Val(MapGet(index.docs, k))

(* C15: indexRemove(k) of a live key leaves the trie untouched: the nodes, *)
(* every posting list and every posting's term frequencies are as before;  *)
(* the only change visible from the trie is that the details object shared *)
(* by the postings of k now has removed = true.                            *)
C15_RemoveLeavesTrieUntouched ==
  [][last'.op = "indexRemove" /\ MapHas(index.docs, last'.key) =>
       /\ index'.root = index.root
       /\ heap' = [heap EXCEPT ![DetailsOf(last'.key)].removed = TRUE]
       /\ ~heap[DetailsOf(last'.key)].removed]_vars

\* The last call removed a live document whose postings are still in the
\* trie, one of them in a posting list it shares with a live document.
C15_Witness ==
  /\ last.op = "indexRemove"
  /\ \E n \in RemovedDetails :
       /\ heap[n].key = last.key
       /\ n \notin evicted
       /\ \E node \in SubtreeNodes(index.root) :
            /\ \E p \in PostingsAt(node) : p.details = n
            /\ \E p \in PostingsAt(node) : ~heap[p.details].removed

---------------------------------------------------------------------------
(* The state machine over documents with absent and empty fields. *)

IndexAddSparse ==
  /\ Len(heap) < MaxAdds
  /\ \E key \in Keys \ MapKeys(index.docs), doc \in SparseDocs :
       LET r == indexAdd(index, heap, key, doc) IN
       /\ index' = r.index
       /\ heap' = r.heap
       /\ corpus' = Append(corpus, doc)
       /\ last' = Call("indexAdd", key, << >>, NoBoost)
       /\ UNCHANGED evicted

NextSparse == IndexAddSparse \/ IndexRemove \/ IndexVacuum

SpecSparse == Init /\ [][NextSparse]_vars

\* The document the step inserts.
Inserted == corpus'[Len(corpus')]

(* C16: indexAdd of a document none of whose fields yields a non-empty     *)
(* filtered term registers the key in the live registry with all field     *)
(* lengths 0, adds no trie node and no posting, and leaves every fSum[i]   *)
(* as it is.                                                               *)
C16_EmptyDocumentIsRegisteredOnly ==
  [][last'.op = "indexAdd" /\ TermsOf(Inserted) = {} =>
       /\ MapHas(index'.docs, last'.key)
       /\ heap'[Val(MapGet(index'.docs, last'.key))].fCount = [i \in Fields |-> 0]
       /\ ~heap'[Val(MapGet(index'.docs, last'.key))].removed
       /\ index'.root = index.root
       /\ index'.fSum = index.fSum]_vars

\* The last call inserted a document whose second field is present and
\* yields empty tokens only, next to a live document that has terms.
C16_Witness ==
  /\ last.op = "indexAdd"
  /\ TermsOf(corpus[Len(corpus)]) = {}
  /\ corpus[Len(corpus)][2] # Null /\ Val(corpus[Len(corpus)][2]) # << >>
  /\ LiveKeys = Keys
  /\ index.root.c # Null
  /\ \E i \in Fields : index.fSum[i] > 0

---------------------------------------------------------------------------
\* doc with field i present and yielding no filtered term.
WithEmptyField(doc, i) == [doc EXCEPT ![i] = Some(<< >>)]

\* The statistics of field i after indexAdd(key, doc) in the current state.
StatsAfterAdd(key, doc, i) ==
  LET r == indexAdd(index, heap, key, doc)
  IN  <<r.index.fSum[i], r.index.fAvg[i]>>

(* C17: inserting a document whose field i is absent leaves fSum[i] and    *)
(* fAvg[i] at the values that inserting, into the same index state, the    *)
(* same document with field i present but yielding no filtered term leaves *)
(* them at.                                                                *)
C17_AbsentFieldIsEmptyField ==
  [][last'.op = "indexAdd" =>
       \A i \in Fields :
         Inserted[i] = Null =>
           <<index'.fSum[i], index'.fAvg[i]>>
             = StatsAfterAdd(last'.key, WithEmptyField(Inserted, i), i)]_vars

---------------------------------------------------------------------------
\* The strings that spell a path of the trie of idx, the root's included.
Paths(idx) == { t \in Strings : findInvertedIndexNode(idx.root, t) # Null }

\* The posting list of the node that t spells in idx: null or an array.
PostingList(idx, t) == Val(findInvertedIndexNode(idx.root, t)).d

\* The same as an array, a node that is not there having none.
PostingsOrNone(idx, t) ==
  IF t \in Paths(idx) /\ PostingList(idx, t) # Null THEN Val(PostingList(idx, t)) ELSE << >>

\* The keys of the children of the node that t spells in idx.
ChildKeys(idx, t) ==
  LET c == Val(findInvertedIndexNode(idx.root, t)).c
  IN  IF c = Null THEN << >> ELSE [n \in 1 .. Len(Val(c)) |-> Val(c)[n].k]

PrefixesOf(terms) == { q \in Strings : \E t \in terms : IsPrefix(q, t) }

\* new is old with one posting appended, which refers to the details id.
OnePostingAppended(old, new, id) ==
  /\ Len(new) = Len(old) + 1
  /\ SubSeq(new, 1, Len(old)) = old
  /\ new[Len(new)].details = id

(* C18: inserting a term that extends a stored term creates the posting at *)
(* the longer term's node and leaves the shorter term's posting list as it *)
(* is; inserting a term that is a proper prefix of an existing path        *)
(* attaches the posting at the existing interior node, creates no node,    *)
(* and leaves the postings and the children of every other node as they    *)
(* are. For the terms T of the inserted document: every term of T gets one *)
(* posting, the paths grow by the prefixes of T that were missing, no      *)
(* other node's postings change and no node loses or gains a child but by  *)
(* those paths.                                                            *)
C18_InsertLeavesOtherNodesAlone ==
  [][last'.op = "indexAdd" =>
       LET T == TermsOf(Inserted) IN
       /\ Paths(index') = Paths(index) \cup PrefixesOf(T)
       /\ \A t \in T :
            OnePostingAppended(PostingsOrNone(index, t), PostingsOrNone(index', t), Len(heap'))
       /\ \A t \in Paths(index) \ T : PostingList(index', t) = PostingList(index, t)
       /\ T \subseteq Paths(index) =>
            \A t \in Paths(index) : ChildKeys(index', t) = ChildKeys(index, t)]_vars

\* The second insert brought a term that extends a term the first had
\* stored; the first document was then evicted, its node staying as an
\* interior node of the longer path; the last insert attached its posting
\* to that node.
C18_Witness ==
  /\ last.op = "indexAdd"
  /\ Len(corpus) = 3
  /\ 1 \in evicted /\ ~heap[2].removed
  /\ \E q \in TermsOf(corpus[1]) \ TermsOf(corpus[2]) :
       /\ \E t \in TermsOf(corpus[2]) : q # t /\ IsPrefix(q, t)
       /\ q \in TermsOf(corpus[3])
       /\ Len(PostingsOrNone(index, q)) = 1
       /\ ChildKeys(index, q) # << >>

---------------------------------------------------------------------------
(* The state machine with the queries at the edges. *)

IndexQueryEdge ==
  \E s \in EdgeQueries, fieldBoost \in FieldBoosts :
    /\ last' = Call("indexQuery", "", s, fieldBoost)
    /\ UNCHANGED <<index, heap, corpus, evicted>>

NextEdge == IndexAdd \/ IndexRemove \/ IndexVacuum \/ IndexQueryEdge

SpecEdge == Init /\ [][NextEdge]_vars

\* The non-empty filtered terms of the query s.
QueryTerms(s) == { s[n] : n \in 1 .. Len(s) } \ { << >> }

(* C19: indexQuery returns the empty sequence when the index holds no      *)
(* documents, when the query yields no non-empty filtered term, and when   *)
(* no query term is a path of the trie. (No step of the query can raise:   *)
(* every operator applied here is defined on every state.)                 *)
C19_NothingToFindGivesEmptyResult ==
  /\ last.op = "indexQuery"
  /\ \/ Len(index.docs) = 0
     \/ QueryTerms(last.s) = {}
     \/ QueryTerms(last.s) \cap Paths(index) = {}
  => lastResult = << >>

\* The query has a term whose node still holds the posting of the only
\* document, which has been removed: the index holds no documents.
C19_Witness ==
  /\ last.op = "indexQuery"
  /\ Len(index.docs) = 0
  /\ \E t \in QueryTerms(last.s) : Len(PostingsOrNone(index, t)) > 0

---------------------------------------------------------------------------
(* The state machine with calls that are given a wrong configuration. *)

\* indexAdd with a getter list of another length: the call returns.
IndexAddMismatched ==
  /\ Len(heap) < MaxAdds
  /\ \E key \in Keys \ MapKeys(index.docs), doc \in MismatchedDocs :
       LET r == indexAddTyped(index, heap, key, doc) IN
       /\ index' = r.index
       /\ heap' = r.heap
       /\ corpus' = Append(corpus, doc)
       /\ last' = Call("indexAdd", key, << >>, NoBoost)
       /\ UNCHANGED evicted

\* deserialize(serialize(index), deserializer, {fieldsGetters}): the call
\* returns the index whatever getters are supplied (lines 69-75 assign the
\* getters that are there and leave the other fields as decoded). The
\* details objects are those of the copy from here on.
Deserialize ==
  \E fieldsGetters \in GetterLists :
    LET r == deserialize(serialize(index, heap)) IN
    /\ index' = r.index
    /\ heap' = r.heap
    /\ last' = Call("deserialize", "", fieldsGetters, NoBoost)
    /\ UNCHANGED <<corpus, evicted>>

NextConfig == IndexAdd \/ IndexAddMismatched \/ Deserialize

SpecConfig == Init /\ [][NextConfig]_vars

(* C20: a configuration error is reported at the call that introduces it:  *)
(* indexAdd given a getter list whose length differs from the number of    *)
(* fields of the index fails instead of modifying the index, and           *)
(* deserialize fails when a field of the stored state has no usable getter *)
(* supplied. A call that returns was given neither.                        *)
C20_ConfigurationErrorFails ==
  [][/\ last'.op = "indexAdd" => Len(Inserted) = Len(index.fSum)
     /\ last'.op = "deserialize" => \A i \in Fields : i \in Range(last'.s)]_vars

---------------------------------------------------------------------------
(* C21: evaluating a query emits no output: no step of indexQuery writes   *)
(* to the console or to any other output channel, whatever the index and   *)
(* the query.                                                              *)
C21_QueryWritesNothing ==
  last.op = "indexQuery" => lastQuery.console = << >>

---------------------------------------------------------------------------
(* C22: when indexRemove removes the last live document, every field i for *)
(* which that document had a positive length ends with fAvg[i] = 0: the    *)
(* division by a live count of zero yields 0, not NaN or Infinity.         *)
C22_LastRemoveLeavesZeroAverage ==
  [][last'.op = "indexRemove" /\ MapHas(index.docs, last'.key) /\ Len(index'.docs) = 0 =>
       \A i \in Fields :
         heap[DetailsOf(last'.key)].fCount[i] > 0 => index'.fAvg[i] = Zero]_vars

---------------------------------------------------------------------------
\* The number of tokens of a field that the filter does not empty.
FilteredCount(terms) == Cardinality({ j \in 1 .. Len(terms) : terms[j] # << >> })

(* C23: during indexAdd of a key that is not live, each field i with a     *)
(* value that is not absent gets fSum[i] increased by the field's filtered *)
(* term count and fAvg[i] set to fSum[i] / (live count before the insert   *)
(* + 1), so that when the call returns fAvg[i] = fSum[i] / (live count     *)
(* after the insert).                                                      *)
C23_AverageAnticipatesInsert ==
  [][last'.op = "indexAdd" =>
       \A i \in Fields :
         Inserted[i] # Null =>
           /\ index'.fSum[i] = index.fSum[i] + FilteredCount(Val(Inserted[i]))
           /\ index'.fAvg[i] = Div(index'.fSum[i], Len(index.docs) + 1)
           /\ index'.fAvg[i] = Div(index'.fSum[i], Len(index'.docs))]_vars

\* The last call inserted, next to a live document with terms and after a
\* remove, a document whose first field has a token that the filter empties:
\* the field counts fewer terms than tokens.
C23_Witness ==
  /\ last.op = "indexAdd"
  /\ Len(index.docs) = 2
  /\ RemovedDetails # {}
  /\ LET doc == corpus[Len(corpus)] IN
       /\ doc[1] # Null
       /\ 0 < FilteredCount(Val(doc[1])) /\ FilteredCount(Val(doc[1])) < Len(Val(doc[1]))
  /\ index.fSum[1] > heap[Len(heap)].fCount[1]

---------------------------------------------------------------------------
(* The state machine with queries whose terms score the same documents. *)

IndexQueryMerge ==
  \E s \in MergeQueries, fieldBoost \in FieldBoosts :
    /\ last' = Call("indexQuery", "", s, fieldBoost)
    /\ UNCHANGED <<index, heap, corpus, evicted>>

NextMerge == IndexAdd \/ IndexRemove \/ IndexVacuum \/ IndexQueryMerge

SpecMerge == Init /\ [][NextMerge]_vars

\* The steps in which query term i scored document key.
StepsOf(steps, i, key) == { n \in 1 .. Len(steps) : steps[n].i = i /\ steps[n].key = key }

\* The maximum over the expansions of query term i of the score of key, 0
\* when no expansion of the term scored it.
MaxOverExpansions(steps, i, key) ==
  LET S == StepsOf(steps, i, key)
  IN  IF S = {} THEN 0
      ELSE steps[CHOOSE n \in S : \A m \in S : steps[m].score <= steps[n].score].score

\* The sum of these maxima over the query terms from term i on.
RECURSIVE SumOverTerms(_, _, _, _)
SumOverTerms(steps, i, terms, key) ==
  IF i > terms THEN 0
  ELSE MaxOverExpansions(steps, i, key) + SumOverTerms(steps, i + 1, terms, key)

(* C24: the final score of a document is the sum over the query terms of   *)
(* the maximum over that term's expansions of the per-expansion score of   *)
(* the document: contributions sum across query terms, and within one      *)
(* query term the maximum over its expansions is taken.                    *)
C24_SumOfMaximaOverTerms ==
  last.op = "indexQuery" =>
    \A n \in 1 .. Len(lastResult) :
      lastResult[n].score = SumOverTerms(lastQuery.steps, 1, Len(last.s), lastResult[n].key)

---------------------------------------------------------------------------
(* The state machine of the index whose removed documents are a Set of     *)
(* keys. The operations are named as above: indexAdd is                    *)
(* addDocumentToIndex, indexRemove is removeDocumentFromIndex, indexVacuum *)
(* is vacuumIndex.                                                         *)

InitRemovedSet ==
  /\ index = [createIndex EXCEPT !.removed = {}]
  /\ heap = << >>
  /\ corpus = << >>
  /\ last = Call("createIndex", "", << >>, NoBoost)
  /\ evicted = {}

AddDocumentToIndex ==
  /\ Len(heap) < MaxAdds
  /\ \E key \in Keys \ MapKeys(index.docs), doc \in Docs :
       LET r == addDocumentToIndex(index, heap, key, doc) IN
       /\ index' = r.index
       /\ heap' = r.heap
       /\ corpus' = Append(corpus, doc)
       /\ last' = Call("indexAdd", key, << >>, NoBoost)
       /\ UNCHANGED evicted

RemoveDocumentFromIndex ==
  \E key \in Keys :
    /\ index' = removeDocumentFromIndex(index, heap, key)
    /\ last' = Call("indexRemove", key, << >>, NoBoost)
    /\ UNCHANGED <<heap, corpus, evicted>>

\* The details objects that the registry holds.
Registered(idx) == { idx.docs[n].value : n \in 1 .. Len(idx.docs) }

VacuumIndex ==
  /\ index' = vacuumIndex(index, heap)
  /\ last' = Call("indexVacuum", "", << >>, NoBoost)
  /\ evicted' = evicted \cup ((1 .. Len(heap)) \ Registered(index))
  /\ UNCHANGED <<heap, corpus>>

NextRemovedSet == AddDocumentToIndex \/ RemoveDocumentFromIndex \/ VacuumIndex

SpecRemovedSet == InitRemovedSet /\ [][NextRemovedSet]_vars

\* The (term, posting) pairs reachable from node, which term spells.
RECURSIVE TermPostings(_, _)
TermPostings(node, term) ==
  { <<term, p>> : p \in PostingsAt(node) } \cup
  (IF node.c = Null THEN {}
   ELSE UNION { TermPostings(Val(node.c)[n], Append(term, Val(node.c)[n].k)) :
                n \in 1 .. Len(Val(node.c)) })

\* The (term, live document, per-field term frequencies) triples reachable
\* from the root of idx, a document being its details object and its key:
\* it is live when the registry holds its details object.
LiveTriples(idx, hp) ==
  { <<tp[1], tp[2].details, hp[tp[2].details].key, tp[2].tf>> :
      tp \in { x \in TermPostings(idx.root, << >>) : x[2].details \in Registered(idx) } }

(* C25: indexVacuum never removes or alters a posting of a live document:  *)
(* the set of (term, live document, per-field term frequencies) triples    *)
(* reachable from the root is the same before and after the vacuum, and    *)
(* the registry, fSum and fAvg are unchanged.                              *)
C25_VacuumKeepsLivePostings ==
  [][last'.op = "indexVacuum" =>
       /\ LiveTriples(index', heap') = LiveTriples(index, heap)
       /\ index'.docs = index.docs
       /\ index'.fSum = index.fSum
       /\ index'.fAvg = index.fAvg
       /\ heap' = heap]_vars

---------------------------------------------------------------------------
\* The earlier incarnations of the live key k: the details objects created
\* for k that the registry no longer holds.
EarlierIncarnations(k) == { n \in 1 .. Len(heap) : heap[n].key = k /\ n # DetailsOf(k) }

(* C26: a key that is removed and later inserted again while not live is   *)
(* fully live: every term of the new document has its posting, a vacuum    *)
(* evicts the postings of the earlier, removed incarnations and keeps      *)
(* those of the new one, and a query that matches the new document's terms *)
(* returns the key.                                                        *)
C26_ReinsertedDocumentIsLive ==
  \A k \in LiveKeys :
    EarlierIncarnations(k) # {} =>
      /\ \A t \in TermsOf(LiveDoc(k)) :
           \E tp \in TermPostings(index.root, << >>) :
             tp[1] = t /\ tp[2].details = DetailsOf(k)
      /\ last.op = "indexVacuum" =>
           \A tp \in TermPostings(index.root, << >>) :
             tp[2].details \notin EarlierIncarnations(k)
      /\ last.op = "indexQuery" /\ Matches(last.s, LiveDoc(k)) => k \in ResultKeys

---------------------------------------------------------------------------
\* The index after indexAdd(k1, d1) and then indexAdd(k2, d2) in the
\* current state.
AddedInOrder(k1, d1, k2, d2) ==
  LET first == indexAdd(index, heap, k1, d1)
  IN  indexAdd(first.index, first.heap, k2, d2).index

\* a and b have the same statistics and expand every term alike.
SameStatistics(a, b) ==
  /\ a.fSum = b.fSum
  /\ a.fAvg = b.fAvg
  /\ \A t \in Strings : expandTerm(a, t) = expandTerm(b, t)

(* C27: insertion commutes with respect to the statistics: for any two     *)
(* documents with distinct keys that are not live, inserting d1 and then   *)
(* d2 leaves the same fSum, fAvg and expandTerm results as inserting d2    *)
(* and then d1, also when one of them lacks a field that the other has.    *)
C27_InsertionCommutes ==
  \A k1, k2 \in Keys \ LiveKeys :
    k1 # k2 =>
      \A d1, d2 \in Docs :
        SameStatistics(AddedInOrder(k1, d1, k2, d2), AddedInOrder(k2, d2, k1, d1))

---------------------------------------------------------------------------
\* ix and its details hp answer every query as the index jx with hp2 does.
SameAnswers(ix, hp, jx, hp2) ==
  \A in \in Inputs :
    indexQuery(ix, hp, in[2], in[1]) = indexQuery(jx, hp2, in[2], in[1])

(* C28: the index that deserialize(serialize(idx)) yields with a codec     *)
(* that copies by value stays equivalent to idx under further operations:  *)
(* the same calls applied to both give equal results for every query; in   *)
(* particular a document removed from the deserialized index is not        *)
(* returned by its search. Here for one remove of a live key applied to    *)
(* both.                                                                   *)
C28_CopyStaysEquivalent ==
  \A key \in LiveKeys :
    LET original == indexRemove(index, heap, key)
        copy == indexRemove(RoundTrip.index, RoundTrip.heap, key)
    IN  /\ SameAnswers(copy.index, copy.heap, original.index, original.heap)
        /\ \A in \in Inputs :
             key \notin KeysOf(indexQuery(copy.index, copy.heap, in[2], in[1]))

---------------------------------------------------------------------------
(* The state machine with the query that cleans up on its way. *)

\* DocumentIndex.search(query): it returns what indexQuery returns, and
\* leaves the posting lists it has visited without their removed postings.
Search ==
  \E s \in Queries :
    /\ index' = searchCleanup(index, s, 1, heap)
    /\ last' = Call("indexQuery", "", s, [i \in Fields |-> 1])
    /\ UNCHANGED <<heap, corpus, evicted>>

NextSearch == IndexAdd \/ IndexRemove \/ IndexVacuum \/ Search

SpecSearch == Init /\ [][NextSearch]_vars

\* The postings of d whose document is not removed, in their order.
LivePostings(d, hp) == SelectSeq(d, LAMBDA p : ~hp[p.details].removed)

\* The posting list of a node as an array, null being the empty list.
PostingsOf(node) == IF node.d = Null THEN << >> ELSE Val(node.d)

\* new is the subtree old with the same nodes, every posting list holding
\* the live postings it held, in their order, and no posting it did not hold.
RECURSIVE OnlyUnlinked(_, _, _)
OnlyUnlinked(old, new, hp) ==
  /\ new.k = old.k
  /\ LivePostings(PostingsOf(new), hp) = LivePostings(PostingsOf(old), hp)
  /\ Range(PostingsOf(new)) \subseteq Range(PostingsOf(old))
  /\ (new.c = Null) = (old.c = Null)
  /\ old.c # Null =>
       /\ Len(Val(new.c)) = Len(Val(old.c))
       /\ \A n \in 1 .. Len(Val(old.c)) : OnlyUnlinked(Val(old.c)[n], Val(new.c)[n], hp)

(* C29: a query leaves the registry, fSum, fAvg and the removed counter    *)
(* unchanged, never adds or removes a trie node, and changes a posting     *)
(* list at most by unlinking postings whose details.removed is true: the   *)
(* postings of live documents and their term frequencies are as before.    *)
C29_QueryOnlyUnlinksRemoved ==
  [][last'.op = "indexQuery" =>
       /\ index'.docs = index.docs
       /\ index'.fSum = index.fSum
       /\ index'.fAvg = index.fAvg
       /\ index'.removed = index.removed
       /\ heap' = heap
       /\ OnlyUnlinked(index.root, index'.root, heap)]_vars

\* The last query visited a posting list that a live document shares with
\* a removed one that no vacuum has evicted: the posting of the removed one
\* is gone from it, after that of the live one, while a term of the removed
\* one that the query does not reach still has its posting.
C29_Witness ==
  /\ last.op = "indexQuery"
  /\ \E n \in RemovedDetails \ evicted :
       /\ \E t \in TermsOf(corpus[n]) :
            /\ \E q \in QueryTerms(last.s) : IsPrefix(q, t)
            /\ \A p \in Range(PostingsOrNone(index, t)) : p.details # n
            /\ \E p \in Range(PostingsOrNone(index, t)) : p.details < n
       /\ \E t \in TermsOf(corpus[n]) :
            \E p \in Range(PostingsOrNone(index, t)) : p.details = n

---------------------------------------------------------------------------
\* Every node of the subtree old is in the subtree new, at the same path.
RECURSIVE KeepsNodes(_, _)
KeepsNodes(old, new) ==
  old.c # Null =>
    /\ new.c # Null
    /\ \A n \in 1 .. Len(Val(old.c)) :
         \E m \in 1 .. Len(Val(new.c)) :
           /\ Val(new.c)[m].k = Val(old.c)[n].k
           /\ KeepsNodes(Val(old.c)[n], Val(new.c)[m])

(* C30: between two vacuums the trie only grows: indexAdd, indexRemove and *)
(* the query never delete a trie node, so every term path present after    *)
(* some operation is still present after any later sequence of operations  *)
(* that contains no indexVacuum.                                           *)
C30_TrieGrowsBetweenVacuums ==
  [][last'.op # "indexVacuum" => KeepsNodes(index.root, index'.root)]_vars

\* A document was removed after the last vacuum and the last call, a query,
\* has emptied the posting list of a term that only this document had: the
\* path of the term is still there.
C30_Witness ==
  /\ last.op = "indexQuery"
  /\ evicted # {}
  /\ \E n \in RemovedDetails \ evicted : \E t \in TermsOf(corpus[n]) :
       /\ t \in Paths(index)
       /\ PostingsOrNone(index, t) = << >>
       /\ PostingList(index, t) = Null

---------------------------------------------------------------------------
\* The details object of posting p is the one that the registry holds under
\* the key of p.
IsRegistered(p) == MapGet(index.docs, heap[p.details].key) = Some(p.details)

\* The number of postings of node whose document is not removed.
LiveCount(node) ==
  Cardinality({ n \in 1 .. Len(PostingsOf(node)) : ~heap[PostingsOf(node)[n].details].removed })

(* C31: keys being unique among the live documents, a posting has          *)
(* details.removed = false exactly when its details object is the one the  *)
(* registry holds under its key; hence no node has more postings that are  *)
(* not removed than there are live documents.                              *)
C31_LivePostingIsRegistered ==
  \A node \in SubtreeNodes(index.root) :
    /\ \A p \in PostingsAt(node) : ~heap[p.details].removed <=> IsRegistered(p)
    /\ LiveCount(node) <= Len(index.docs)

\* A key was removed and inserted again and no vacuum has run since: one node
\* holds the posting of the removed incarnation, that of the new one and
\* that of another live document.
C31_Witness ==
  /\ Len(index.docs) = 2
  /\ \E node \in SubtreeNodes(index.root) :
       /\ Len(PostingsOf(node)) = 3
       /\ LiveCount(node) = 2
       /\ \E p, q \in PostingsAt(node) :
            /\ heap[p.details].key = heap[q.details].key
            /\ heap[p.details].removed /\ ~heap[q.details].removed

---------------------------------------------------------------------------
\* The postings of document n in the subtree of node, which term spells:
\* <<term, position in the posting list, tf>>.
RECURSIVE DocPostings(_, _, _)
DocPostings(node, term, n) ==
  { <<term, x, PostingsOf(node)[x].tf>> :
      x \in { y \in 1 .. Len(PostingsOf(node)) : PostingsOf(node)[y].details = n } } \cup
  (IF node.c = Null THEN {}
   ELSE UNION { DocPostings(Val(node.c)[m], Append(term, Val(node.c)[m].k), n) :
                m \in 1 .. Len(Val(node.c)) })

\* The sum of tf[i] over the postings ps.
RECURSIVE SumTf(_, _)
SumTf(ps, i) ==
  IF ps = {} THEN 0
  ELSE LET p == CHOOSE x \in ps : TRUE IN p[3][i] + SumTf(ps \ {p}, i)

---------------------------------------------------------------------------
(* C33: in every reachable state every posting reachable from the root has *)
(* at least one field i with tf[i] >= 1.                                   *)
C33_PostingCountsSomeField ==
  \A node \in SubtreeNodes(index.root) :
    \A p \in PostingsAt(node) : \E i \in DOMAIN p.tf : p.tf[i] >= 1

---------------------------------------------------------------------------
(* C34: the root never holds a posting, the empty term being stored        *)
(* nowhere, and is never pruned: after any sequence of operations, a       *)
(* vacuum of an index whose documents were all removed included, the root  *)
(* is there with code unit 0, and that vacuum leaves it without children.  *)
C34_RootHoldsNoPostingAndStays ==
  /\ index.root.k = 0
  /\ index.root.d = Null
  /\ last.op = "indexVacuum" /\ Len(index.docs) = 0 =>
       index.root.c \in { Null, Some(<< >>) }

\* The last call vacuumed an index all of whose documents were removed, one
\* of them having had a token that the filter empties: every path is pruned
\* and the root is left with an empty array of children.
C34_Witness ==
  /\ last.op = "indexVacuum"
  /\ Len(index.docs) = 0
  /\ Cardinality(evicted) > 1
  /\ \E n \in evicted : \E i \in Fields :
       corpus[n][i] # Null /\ \E j \in 1 .. Len(Val(corpus[n][i])) : Val(corpus[n][i])[j] = << >>
  /\ index.root = [k |-> 0, c |-> Some(<< >>), d |-> Null]

---------------------------------------------------------------------------
\* s precedes t in the lexicographic order of the code units, a proper
\* prefix preceding its extensions.
RECURSIVE LexLess(_, _)
LexLess(s, t) ==
  IF s = << >> THEN t # << >>
  ELSE IF t = << >> THEN FALSE
  ELSE IF s[1] # t[1] THEN s[1] < t[1]
  ELSE LexLess(Tail(s), Tail(t))

(* C35: expandTerm returns the terms in depth-first pre-order, the         *)
(* children in ascending order of their code units: every returned term    *)
(* precedes the returned terms that extend it and the list ascends in the  *)
(* lexicographic order of the code units, in whatever order the documents  *)
(* were inserted.                                                          *)
C35_ExpandTermAscending ==
  \A q \in Strings :
    LET e == expandTerm(index, q) IN
    \A m, n \in 1 .. Len(e) :
      /\ m < n => LexLess(e[m], e[n])
      /\ IsPrefix(e[m], e[n]) => m <= n

\* The first document inserted has "b" and "ab" and not "a": the child for
\* "a" came second under the root and the term "a" after its extension "ab";
\* the expansion of the empty prefix is "a", "ab", "b".
C35_Witness ==
  /\ Len(corpus) > 1
  /\ TermsOf(corpus[1]) = {B, AB}
  /\ \A n \in 1 .. Len(heap) : n \notin evicted
  /\ expandTerm(index, << >>) = <<A, AB, B>>

---------------------------------------------------------------------------
(* The state machine with documents over three characters. *)

IndexAddChars ==
  /\ Len(heap) < MaxAdds
  /\ \E key \in CharKeys \ MapKeys(index.docs), doc \in CharDocs :
       LET r == indexAdd(index, heap, key, doc) IN
       /\ index' = r.index
       /\ heap' = r.heap
       /\ corpus' = Append(corpus, doc)
       /\ last' = Call("indexAdd", key, << >>, NoBoost)
       /\ UNCHANGED evicted

NextChars == IndexAddChars \/ IndexRemove \/ IndexVacuum

SpecChars == Init /\ [][NextChars]_vars

\* The code units of the children of node, in the order of the array.
ChildUnits(node) ==
  IF node.c = Null THEN << >> ELSE [n \in 1 .. Len(Val(node.c)) |-> Val(node.c)[n].k]

StrictlyAscending(seq) == \A n \in 1 .. Len(seq) - 1 : seq[n] < seq[n + 1]

(* C36: in every reachable state the children array of every trie node is  *)
(* strictly ascending by code unit, no two children sharing one: indexAdd  *)
(* inserts a new child where the binary search says and the removal of     *)
(* children by indexVacuum keeps the order.                                *)
C36_ChildrenStrictlyAscending ==
  \A node \in SubtreeNodes(index.root) : StrictlyAscending(ChildUnits(node))

\* The root has had the children "a", "b" and "c", "b" inserted between the
\* other two, and the last call, a vacuum, has spliced "b" out from between
\* them; below "b" there were two children.
C36_Witness ==
  /\ last.op = "indexVacuum"
  /\ ChildUnits(index.root) = <<1, 3>>
  /\ Len(index.docs) = 2
  /\ \E n \in evicted : <<2>> \in TermsOf(corpus[n]) /\ n = Len(heap)

---------------------------------------------------------------------------
\* The documents that indexRemove has removed since the last vacuum, or
\* since creation: one for each call that hit a live key.
RemovedSinceVacuum == RemovedDetails \ evicted

(* C37: index.removed is always the number of indexRemove calls that hit a *)
(* live key since the last indexVacuum, or since creation: indexVacuum     *)
(* resets it to 0 and no other operation changes it.                       *)
C37_RemovedCountsHitsSinceVacuum ==
  index.removed = Cardinality(RemovedSinceVacuum)

\* A vacuum has run, a remove has hit a live key since, and the last call
\* was a remove of a key that was not live.
C37_Witness ==
  /\ evicted # {}
  /\ index.removed = 1
  /\ last.op = "indexRemove"
  /\ \A n \in RemovedSinceVacuum : heap[n].key # last.key

============================================================================
